---- MODULE Spec2Model ----
(***************************************************************************)
(* The project synchronization core of the bandana editor:                 *)
(*   - the background check worker (build.rs) and the orchestrator's use   *)
(*     of it (app.rs: open_project, the "Run cargo check" button, the      *)
(*     result drain of update);                                            *)
(*   - the scene document store (project.rs: open, save_design,            *)
(*     reload_design_if_changed) over a disk that other programs write.    *)
(* An Option<T> of the source is a sequence of length at most one:         *)
(* None is << >> and Some(x) is <<x>>.                                     *)
(***************************************************************************)
EXTENDS Integers, Sequences, FiniteSets, TLC

\* ------------------------------------------------------------ bounds
\* Check jobs submitted in one behaviour.
MaxJobs == 3
\* Output lines one verification process prints.
MaxLines == 2
\* Successful project opens in one behaviour (one watcher/bridge pair each).
MaxOpens == 2
\* Ticks of the file system's clock in one behaviour.
MaxTime == 2
\* Lines the run processes print in one behaviour.
MaxRunLines == 5001
\* Run processes started in one behaviour.
MaxRuns == 2
\* Runs of the exporter in one behaviour.
MaxExports == 1
\* Entities of a document and components of an entity whose text is followed.
MaxEntities == 2
MaxComponents == 2
\* Items the event source delivers to one watch worker in one behaviour.
MaxArrivals == 3
\* Milliseconds a watch worker's loop is followed for.
MaxClock == 500

None == << >>
Some(x) == <<x>>

\* Project roots the user may pick in the folder dialog.
Roots == {"A", "B"}

\* ------------------------------------------------------------ state
VARIABLES
  project,     \* EditorApp.project: Option<ProjectState>
  last_log,    \* EditorApp.last_log, the rolling status line
  jobs,        \* the BuildJob channel (build_tx -> rx), oldest first
  results,     \* the BuildResult channel (otx -> build_rx), oldest first
  wpc,         \* the worker thread's position: "recv" or "reading"
  wjob,        \* Option: the job the worker is processing
  wdiags,      \* the worker's local `diags`
  wlines,      \* history: the lines the current process has printed so far
  procs,       \* ids of the jobs whose cargo process is running
  bridges,     \* one entry per spawned watcher/bridge pair: [root, pending]
  submitted,   \* history: every job sent, in send order
  emitted,     \* history: the job id of every result the worker sent, in order
  drained,     \* history: the job id of every result update received, in order
  burst,       \* history: how many results the latest drain of update received
  wexit,       \* history: Option, the exit code child.wait() last returned
  cfg,         \* project.ron of the project directory: "ok", "missing", "malformed"
  file,        \* design/initial.scene.ron: Option<[text, mtime]>
  now,         \* the file system's clock, in units of its timestamp resolution
  upc,         \* where the UI thread stands inside ProjectState::open / save_design
  loc,         \* open's locals (design_scene, design_mtime) while it runs
  last,        \* history: the last ProjectState operation the UI thread completed
  touched,     \* history: the scene file was written or deleted since then
  kpc,         \* a watch worker's thread: "new", "register", "loop" or "dead"
  registered,  \* how many of its watcher.watch calls it has made
  watched,     \* the paths whose registration succeeded
  inner,       \* the channel inner_tx -> inner_rx of notify::Result<Event>
  clock,       \* Instant::now(), in milliseconds
  last_fire,   \* the watch loop's last_fire, in milliseconds
  arrived,     \* history: how many items the event source has delivered
  khist,       \* history: when the loop last forwarded an event, when it last
               \* kept one, whether it has skipped an error item
  handled,     \* history: Option, what the loop did with the item it took last
  wthreads,    \* one entry per watcher/bridge pair: its watch thread, "new",
               \* "loop" or "dead"
  edited,      \* history: Option, the document the inspector last produced
               \* since the last open or successful save
  run_child,   \* EditorApp.run_child: Option of the process id
  run_rx,      \* EditorApp.run_rx: Option of the channel's content, oldest first
  run_log,     \* EditorApp.run_log
  running,     \* the run processes alive (their ids)
  exited,      \* the application has run on_exit
  pushed,      \* history: every line pushed to run_log since it was last cleared
  printed,     \* history: how many lines the run processes have printed
  exports,     \* history: how many times the exporter was run
  started,     \* history: how many run processes were started
  stops,       \* history: the stop_run calls that found a process tracked
  script_schema, \* EditorApp.script_schema: Option<Schema>
  schema_mtime,  \* EditorApp.schema_mtime: Option of a modification time
  sfile,       \* design/.schema.ron: Option<[text, mtime]>
  sdid,        \* history: what the last use of the schema loader was and did
  sseen,       \* history: Option, the mtime the latest refresh of update saw
  rdoc,        \* Option: a document in memory whose text is followed token by token
  rtext,       \* Option: the text save_design serialized from rdoc
  rback,       \* Option: what ron::from_str made of rtext (itself an Option)
  xrun,        \* the exporter process the UI thread waits for: [st, out]
  killed,      \* ids of the run processes that were sent the kill signal
  selected_entity, \* Option<usize>: the entity picked in the hierarchy
  inspected,   \* what the inspector's get_mut(sel) last gave: "none", "entity", "panic"
  auto         \* ghost: changes noted by the watcher and the jobs its bridge sent

checkVars == <<jobs, results, wpc, wjob, wdiags, wlines, procs, bridges,
               submitted, emitted, drained, burst, wexit>>
diskVars == <<cfg, file, now>>
sceneVars == <<diskVars, upc, loc, last, touched>>
watchVars == <<kpc, registered, watched, inner, clock, last_fire, arrived, khist, handled>>
runVars == <<run_child, run_rx, run_log, running, exited, pushed, printed, exports,
             started, stops>>
schemaVars == <<script_schema, schema_mtime, sfile, sdid, sseen>>
ronVars == <<rdoc, rtext, rback>>
tickVars == <<xrun, killed>>
uiVars == <<selected_entity, inspected>>
appVars == <<wthreads, edited, runVars, schemaVars, ronVars, tickVars, uiVars, auto>>
vars == <<project, last_log, checkVars, watchVars, appVars, sceneVars>>

\* ------------------------------------------------------------ records
\* open's locals before it has read anything.
NoLocals == [scene |-> None, mtime |-> None]

\* No exporter process.
NoExporter == [st |-> "none", out |-> None]

\* What the UI thread's last ProjectState operation was and did: op is
\* "none", "open", "save", "reload" or "edit"; ok: it succeeded (a reload:
\* it replaced the document); read: it called read_to_string on the scene
\* file; parsed: it called ron::from_str on the text read; after, of a
\* reload: the reload or save right before it and whether that succeeded,
\* when the scene file was not written or deleted between the two (<< >>
\* otherwise).
Did(op, ok, read, parsed) ==
  [op |-> op, ok |-> ok, read |-> read, parsed |-> parsed, after |-> << >>]
NoOp == Did("none", FALSE, FALSE, FALSE)

\* ProjectState as ProjectState::open builds it (project.rs:105-116).
ProjectState(root, scene, path, mtime) ==
  [root |-> root, last_diagnostics |-> << >>,
   design_scene |-> scene, design_path |-> path, design_mtime |-> mtime]

\* BuildJob::Check { root }; id is the job's place in the send order (history).
CheckJob(id, root) == [id |-> id, root |-> root]

\* BuildResult::Ok / BuildResult::Err; id and root name the job it answers
\* (history: the source's results carry neither).
BuildOk(job, dt) ==
  [id |-> job.id, root |-> job.root, ok |-> TRUE, duration_ms |-> dt,
   diagnostics |-> << >>]
BuildErr(job, dt, diags) ==
  [id |-> job.id, root |-> job.root, ok |-> FALSE, duration_ms |-> dt,
   diagnostics |-> diags]

\* ------------------------------------------------------------ cargo output
\* Lines the verification process may print. kind "junk": the line is no
\* CargoMessage (serde_json::from_str fails); "other": another reason
\* (CargoMessage::Other); "message": reason compiler-message. text is the
\* human text as a sequence of pieces, " " standing for white space.
OutputLines ==
  { [kind |-> "junk", level |-> "", text |-> << >>, spans |-> << >>],
    [kind |-> "other", level |-> "", text |-> << >>, spans |-> << >>],
    [kind |-> "message", level |-> "warning", text |-> <<"unused import">>,
     spans |-> << >>],
    [kind |-> "message", level |-> "warning", text |-> <<"unused variable", " ">>,
     spans |-> << [file_name |-> "src/lib.rs", line_start |-> 3, column_start |-> 9] >>],
    [kind |-> "message", level |-> "error",
     text |-> <<" ", "mismatched types", " ">>,
     spans |-> << [file_name |-> "src/main.rs", line_start |-> 10, column_start |-> 5],
                  [file_name |-> "src/lib.rs", line_start |-> 1, column_start |-> 1] >>] }

\* The lines of a process watched together with the orchestrator: one that
\* adds no diagnostic and one that adds one.
CheckLines ==
  {l \in OutputLines : l.kind = "junk" \/ (l.kind = "message" /\ l.level = "error")}

IsSpace(c) == c = " "

RECURSIVE TrimStart(_)
TrimStart(t) ==
  IF t # << >> /\ IsSpace(Head(t)) THEN TrimStart(Tail(t)) ELSE t

RECURSIVE TrimEnd(_)
TrimEnd(t) ==
  IF t # << >> /\ IsSpace(t[Len(t)]) THEN TrimEnd(SubSeq(t, 1, Len(t) - 1)) ELSE t

\* str::trim
Trim(t) == TrimEnd(TrimStart(t))

\* serde_json::from_str::<CargoMessage>(&line): Option of the parsed message.
FromStr(line) == IF line.kind = "junk" THEN None ELSE Some(line)

\* Mutant: the diagnostic uses the last location of the message.
ToDiagLastSpan(m) ==
  IF m.kind = "message" /\ m.spans # << >>
  THEN Some([file |-> m.spans[Len(m.spans)].file_name,
             line |-> m.spans[Len(m.spans)].line_start,
             col  |-> m.spans[Len(m.spans)].column_start,
             msg  |-> <<"[", m.level, "] ">> \o Trim(m.text)])
  ELSE None

\* CargoMessage::to_diag: Option<Diagnostic>.
ToDiag(m) ==
  IF m.kind = "message" /\ m.spans # << >>
  THEN Some([file |-> m.spans[1].file_name,
             line |-> m.spans[1].line_start,
             col  |-> m.spans[1].column_start,
             msg  |-> <<"[", m.level, "] ">> \o Trim(m.text)])
  ELSE None

\* The body of the `for line in reader.lines()` loop: the diagnostics one
\* line adds to `diags`.
LineDiags(line) ==
  IF FromStr(line) = None THEN << >> ELSE ToDiag(FromStr(line)[1])

\* The text of the io::Error of a cargo that is not to be found.
SpawnError == "No such file or directory (os error 2)"

\* Mutant: the diagnostic does not say why cargo could not be spawned.
SpawnDiagNoText(root) ==
  [file |-> root, line |-> 0, col |-> 0, msg |-> <<"failed to spawn cargo">>]

\* The diagnostic the worker makes up when cargo cannot be spawned.
SpawnDiag(root) ==
  [file |-> root, line |-> 0, col |-> 0,
   msg |-> <<"failed to spawn cargo: ", SpawnError>>]

\* ------------------------------------------------------------ channels
\* crossbeam unbounded channel: send appends, recv takes the oldest message.
Send(ch, m) == Append(ch, m)
\* Mutant: the receiver takes the newest message.
RecvNewest(ch) == ch[Len(ch)]
RecvMsg(ch) == Head(ch)
RecvRest(ch) == Tail(ch)

\* The job sent next gets the next place in the send order.
NewJob(root) == CheckJob(Len(submitted) + 1, root)

\* Mutant: sending a job cancels the jobs still waiting.
SubmitCancelling(root) ==
  /\ jobs' = <<NewJob(root)>>
  /\ submitted' = Append(submitted, NewJob(root))

\* Mutant: a send that finds the channel empty sends the job twice.
SubmitTwice(root) ==
  /\ jobs' = IF jobs = << >> THEN <<NewJob(root), NewJob(root)>>
             ELSE Send(jobs, NewJob(root))
  /\ submitted' = Append(submitted, NewJob(root))

\* Mutant: the job channel holds one job, a send waits for room.
SubmitWaiting(root) ==
  /\ jobs = << >>
  /\ jobs' = Send(jobs, NewJob(root))
  /\ submitted' = Append(submitted, NewJob(root))

\* build_tx.send(BuildJob::Check { root }): never blocks, never drops.
Submit(root) ==
  /\ jobs' = Send(jobs, NewJob(root))
  /\ submitted' = Append(submitted, NewJob(root))

\* Jobs sent or about to be sent (an event waiting in a bridge's channel
\* becomes a job).
RECURSIVE PendingEvents(_)
PendingEvents(bs) ==
  IF bs = << >> THEN 0 ELSE Head(bs).pending + PendingEvents(Tail(bs))

JobBudgetLeft == Len(submitted) + PendingEvents(bridges) < MaxJobs

\* ------------------------------------------------------------ check worker
\* while let Ok(job) = rx.recv() ... cmd.spawn() succeeded: the process runs.
WorkerSpawn ==
  /\ wpc = "recv"
  /\ jobs # << >>
  /\ jobs' = RecvRest(jobs)
  /\ wjob' = Some(RecvMsg(jobs))
  /\ procs' = procs \cup {RecvMsg(jobs).id}
  /\ wdiags' = << >>
  /\ wlines' = << >>
  /\ wpc' = "reading"
  /\ UNCHANGED <<sceneVars, watchVars, appVars, project, last_log, results, bridges, submitted, emitted, drained, burst, wexit>>

\* ... cmd.spawn() failed: one synthetic diagnostic, duration 0, `continue`.
WorkerSpawnFail ==
  /\ wpc = "recv"
  /\ jobs # << >>
  /\ jobs' = RecvRest(jobs)
  /\ LET job == RecvMsg(jobs)
         res == BuildErr(job, 0, <<SpawnDiag(job.root)>>)
     IN /\ results' = Send(results, res)
        /\ emitted' = Append(emitted, res.id)
  /\ UNCHANGED <<sceneVars, watchVars, appVars, project, last_log, wpc, wjob, wdiags, wlines, procs, bridges,
                 submitted, drained, burst, wexit>>

\* One turn of `for line in reader.lines().flatten()`, the process printing
\* one of `lines`.
WorkerReadLine(lines) ==
  /\ wpc = "reading"
  /\ Len(wlines) < MaxLines
  /\ \E line \in lines :
       /\ wdiags' = wdiags \o LineDiags(line)
       /\ wlines' = Append(wlines, line)
  /\ UNCHANGED <<sceneVars, watchVars, appVars, project, last_log, jobs, results, wpc, wjob, procs, bridges,
                 submitted, emitted, drained, burst, wexit>>

\* Mutant: the worker does not wait for the process to exit.
NotReaped(ps, id) == ps

\* child.wait(): the process is gone once wait returns.
Reaped(ps, id) == ps \ {id}

\* Exit codes of cargo check: success, and the code it exits with when the
\* build fails.
ExitCodes == {0, 101}

\* Mutant: every process that ran to its end is reported as Err.
OutcomeAlwaysErr(job, dt, diags) == BuildErr(job, dt, diags)

\* The result decided at build.rs:74-81 from `diags` alone.
Outcome(job, dt, diags) ==
  IF diags = << >> THEN BuildOk(job, dt) ELSE BuildErr(job, dt, diags)

\* End of output, child.wait() (whatever the exit code), then the send.
WorkerFinish ==
  /\ wpc = "reading"
  /\ \E dt \in {0, 1} :
       LET res == Outcome(wjob[1], dt, wdiags)
       IN /\ results' = Send(results, res)
          /\ emitted' = Append(emitted, res.id)
  /\ procs' = Reaped(procs, wjob[1].id)
  /\ \E code \in ExitCodes : wexit' = Some(code)
  /\ wjob' = None
  /\ wdiags' = << >>
  /\ wlines' = << >>
  /\ wpc' = "recv"
  /\ UNCHANGED <<sceneVars, watchVars, appVars, project, last_log, jobs, bridges, submitted, drained, burst>>

\* ------------------------------------------------------------ script schema
\* ScriptMeta and Schema, with sample schemas.
ScriptMeta(name) == [name |-> name, rust_symbol |-> <<"scripts::", name>>, params |-> << >>]
Schema(scripts) == [scripts |-> scripts]
SchemaOne == Schema(<<ScriptMeta("Spin")>>)
SchemaTwo == Schema(<<ScriptMeta("Spin"), ScriptMeta("Follow")>>)
Schemas == {SchemaOne, SchemaTwo}

\* The text of design/.schema.ron as the exporter writes it for a schema.
SchemaText(schema) == [kind |-> "schema", scripts |-> schema.scripts]
\* A schema file that is UTF-8 but no Schema, and one that is not UTF-8.
GarbledSchema == [kind |-> "garbled", scripts |-> << >>]
BinarySchema == [kind |-> "binary", scripts |-> << >>]
SchemaTexts == {SchemaText(sc) : sc \in Schemas} \cup {GarbledSchema, BinarySchema}

\* fs::read_to_string(&path): Option of the text.
ReadSchema(f) ==
  IF f = None \/ f[1].text.kind = "binary" THEN None ELSE Some(f[1].text)

\* ron::from_str::<Schema>(&txt): Option of the schema.
ParseSchema(text) ==
  IF text.kind = "schema" THEN Some(Schema(text.scripts)) ELSE None

\* The match of load_script_schema_from: Option of the schema it found.
SchemaFound(f) ==
  IF ReadSchema(f) = None THEN None ELSE ParseSchema(ReadSchema(f)[1])

\* fs::metadata(&path).ok().and_then(|m| m.modified().ok())
SchemaModified(f) == IF f = None THEN None ELSE Some(f[1].mtime)

\* Mutant: a schema file that does not load leaves the schema in memory.
SchemaKeptOnError(cur, f) == IF SchemaFound(f) = None THEN cur ELSE SchemaFound(f)

\* self.script_schema after load_script_schema_from, `cur` being the one before.
SchemaAfterLoad(cur, f) == SchemaFound(f)

\* Mutant: the baseline is stored whether or not the file loaded.
BaselineAlwaysStored(cur, f) == SchemaModified(f)

\* self.schema_mtime after load_script_schema_from.
BaselineAfterLoad(cur, f) == IF SchemaFound(f) = None THEN cur ELSE SchemaModified(f)

\* self.last_log after load_script_schema_from.
StatusAfterLoad(f) ==
  IF ReadSchema(f) = None THEN <<"No .schema.ron yet (run exporter)">>
  ELSE IF SchemaFound(f) = None THEN <<"Failed to parse .schema.ron">>
  ELSE <<"Loaded script schema", Len(SchemaFound(f)[1].scripts), "scripts">>

\* What is known of the schema loader when it has not been used.
NoLoad == [op |-> "none", loaded |-> FALSE, ok |-> FALSE, again |-> FALSE]

\* A use of the schema loader by `op` ("open", "tick" or "export"): loaded: it
\* was called; ok: it found a schema; again: the use before this one was a
\* tick's refresh that found none.
SchemaDid(op, loaded, ok) ==
  [op |-> op, loaded |-> loaded, ok |-> ok,
   again |-> (sdid.op = "tick" /\ sdid.loaded /\ ~sdid.ok)]

\* self.load_script_schema_from(&root), called by `op`.
LoadScriptSchema(op) ==
  /\ script_schema' = SchemaAfterLoad(script_schema, sfile)
  /\ schema_mtime' = BaselineAfterLoad(schema_mtime, sfile)
  /\ last_log' = StatusAfterLoad(sfile)
  /\ sdid' = SchemaDid(op, TRUE, SchemaFound(sfile) # None)

\* Another program (the exporter run by hand, an editor, a checkout) writes
\* the schema file; its timestamp is the clock's or an earlier one.
SchemaWrite(text) ==
  /\ \E mt \in 0..now : sfile' = Some([text |-> text, mtime |-> mt])
  /\ sfile' # sfile
  /\ UNCHANGED <<project, last_log, checkVars, watchVars, tickVars, uiVars, auto, ronVars, sceneVars, wthreads, edited,
                 runVars, script_schema, schema_mtime, sdid, sseen>>

\* Another program deletes the schema file.
SchemaDelete ==
  /\ sfile # None
  /\ sfile' = None
  /\ UNCHANGED <<project, last_log, checkVars, watchVars, tickVars, uiVars, auto, ronVars, sceneVars, wthreads, edited,
                 runVars, script_schema, schema_mtime, sdid, sseen>>

\* Mutant: a file as old as the baseline counts as changed.
SchemaChangedOrSame(baseline, mt) ==
  IF baseline = None THEN TRUE ELSE mt >= baseline[1]

\* `changed` of update: match self.schema_mtime { None => true, Some(old) => mt > old }
SchemaChanged(baseline, mt) ==
  IF baseline = None THEN TRUE ELSE mt > baseline[1]

\* The schema refresh of update, first half: the file's metadata is read and
\* the file is found changed.
SchemaProbe ==
  /\ upc = "idle"
  /\ project # None
  /\ sfile # None
  /\ SchemaChanged(schema_mtime, sfile[1].mtime)
  /\ upc' = "schema"
  /\ sseen' = Some(sfile[1].mtime)
  /\ UNCHANGED <<project, last_log, checkVars, watchVars, tickVars, uiVars, auto, ronVars, diskVars, loc, last, touched,
                 wthreads, edited, runVars, script_schema, schema_mtime, sfile, sdid>>

\* The schema refresh of update, second half: the loader is called on the
\* file as it is by then.
SchemaLoadStep ==
  /\ upc = "schema"
  /\ LoadScriptSchema("tick")
  /\ upc' = "idle"
  /\ UNCHANGED <<project, checkVars, watchVars, tickVars, uiVars, auto, ronVars, diskVars, loc, last, touched,
                 wthreads, edited, runVars, sfile, sseen>>

\* ------------------------------------------------------------ orchestrator
\* EditorApp::open_project, Ok arm. ProjectState::open's result is an input
\* here: a project whose scene file is absent. `thread` is where the watch
\* thread it spawns stands.
OpenProject(root, thread) ==
  /\ upc = "idle"
  /\ Len(bridges) < MaxOpens
  /\ JobBudgetLeft
  /\ Submit(root)
  /\ bridges' = Append(bridges, [root |-> root, pending |-> 0])
  /\ wthreads' = Append(wthreads, thread)
  /\ project' = Some(ProjectState(root, None, None, None))
  /\ LoadScriptSchema("open")
  /\ edited' = None
  /\ UNCHANGED <<sceneVars, watchVars, tickVars, uiVars, auto, ronVars, runVars, sfile, sseen, results, wpc, wjob, wdiags, wlines,
                 procs, emitted, drained, burst, wexit>>

\* open_project, the watch thread taken from where it has made its watcher
\* and waits in its loop.
OpenProjectOk(root) == OpenProject(root, "loop")

\* open_project, the watch thread taken from its first step.
OpenProjectSpawn(root) == OpenProject(root, "new")

\* Mutant: a failed open closes the project that was open.
ClosedByFailedOpen(proj) == None

\* self.project after the Err arm of open_project: it is not assigned.
AfterFailedOpen(proj) == proj

\* EditorApp::open_project, Err arm.
OpenProjectErr(root) ==
  /\ upc = "idle"
  /\ last_log' = <<"Failed to open project">>
  /\ project' = AfterFailedOpen(project)
  /\ UNCHANGED <<sceneVars, watchVars, appVars, checkVars>>

\* The "Run cargo check" buttons of update.
RunCargoCheck ==
  /\ upc = "idle"
  /\ project # None
  /\ JobBudgetLeft
  /\ Submit(project[1].root)
  /\ UNCHANGED <<sceneVars, watchVars, appVars, project, last_log, results, wpc, wjob, wdiags, wlines, procs,
                 bridges, emitted, drained, burst, wexit>>

\* The watch thread of pair i has made its watcher and entered its loop.
WatchThreadUp(i) ==
  /\ wthreads[i] = "new"
  /\ wthreads' = [wthreads EXCEPT ![i] = "loop"]
  /\ UNCHANGED <<project, last_log, checkVars, sceneVars, watchVars, tickVars, uiVars, auto, ronVars, edited, runVars, schemaVars>>

\* RecommendedWatcher::new fails in the watch thread of pair i: .expect
\* panics, the thread ends and drops tx, the bridge's recv fails and the
\* bridge thread ends.
WatchThreadPanics(i) ==
  /\ wthreads[i] = "new"
  /\ wthreads' = [wthreads EXCEPT ![i] = "dead"]
  /\ UNCHANGED <<project, last_log, checkVars, sceneVars, watchVars, tickVars, uiVars, auto, ronVars, edited, runVars, schemaVars>>

\* The watch worker of bridge i forwards an event: tx.send(event).
WatcherForward(i) ==
  /\ wthreads[i] = "loop"
  /\ JobBudgetLeft
  /\ bridges' = [bridges EXCEPT ![i].pending = @ + 1]
  /\ UNCHANGED <<sceneVars, watchVars, appVars, project, last_log, jobs, results, wpc, wjob, wdiags, wlines,
                 procs, submitted, emitted, drained, burst, wexit>>

\* The bridging thread of open_project: one job per event received.
BridgeForward(i) ==
  /\ bridges[i].pending > 0
  /\ bridges' = [bridges EXCEPT ![i].pending = @ - 1]
  /\ Submit(bridges[i].root)
  /\ UNCHANGED <<sceneVars, watchVars, appVars, project, last_log, results, wpc, wjob, wdiags, wlines, procs,
                 emitted, drained, burst, wexit>>

\* The status line one result leaves.
StatusOf(res) ==
  IF res.ok THEN <<"cargo check: OK in", res.duration_ms, "ms">>
  ELSE <<"cargo check: ERR in", res.duration_ms, "ms">>

\* Mutant: an Err result is applied only to the project its job was sent for.
ApplyResultSameRoot(proj, res) ==
  IF ~res.ok /\ proj # None /\ res.root = proj[1].root
  THEN Some([proj[1] EXCEPT !.last_diagnostics = res.diagnostics])
  ELSE proj

\* Mutant: an Err result's diagnostics are added to those already there.
ApplyResultAppending(proj, res) ==
  IF ~res.ok /\ proj # None
  THEN Some([proj[1] EXCEPT !.last_diagnostics = @ \o res.diagnostics])
  ELSE proj

\* One turn of `while let Ok(msg) = self.build_rx.try_recv()`.
ApplyResult(proj, res) ==
  IF ~res.ok /\ proj # None
  THEN Some([proj[1] EXCEPT !.last_diagnostics = res.diagnostics])
  ELSE proj

RECURSIVE DrainProject(_, _)
DrainProject(proj, rs) ==
  IF rs = << >> THEN proj
  ELSE DrainProject(ApplyResult(proj, RecvMsg(rs)), RecvRest(rs))

\* The drain of build results in EditorApp::update: until try_recv is empty.
UpdateDrain ==
  /\ upc = "idle"
  /\ results # << >>
  /\ project' = DrainProject(project, results)
  /\ last_log' = StatusOf(results[Len(results)])
  /\ drained' = drained \o [i \in DOMAIN results |-> results[i].id]
  /\ burst' = Len(results)
  /\ results' = << >>
  /\ UNCHANGED <<sceneVars, watchVars, appVars, jobs, wpc, wjob, wdiags, wlines, procs, bridges, submitted,
                 emitted, wexit>>

\* ------------------------------------------------------------ runner
\* The most lines run_log keeps.
RunLogCap == 5000

\* A line of the log: the tag its stream gives it and its text, which names
\* the process that printed it and the line's number.
Line(tag, proc, n) == [tag |-> tag, proc |-> proc, n |-> n]

\* k lines of a stream of process `proc`, the first one numbered from + 1.
Lines(tag, proc, from, k) == [i \in 1..k |-> Line(tag, proc, from + i)]

\* What the run processes print: a first block of lines on stdout that all
\* but fills the log, then single lines on stderr.
Block(sofar) == IF sofar = 0 THEN RunLogCap - 1 ELSE 1
Stream(sofar) == IF sofar = 0 THEN "[out] " ELSE "[err] "

\* Mutant: a log over the cap loses its newest lines.
TruncatedNewest(log) ==
  IF Len(log) > RunLogCap THEN SubSeq(log, 1, RunLogCap) ELSE log

\* if self.run_log.len() > 5000 { self.run_log.drain(0..len - 5000) }
Truncated(log) ==
  IF Len(log) > RunLogCap
  THEN SubSeq(log, Len(log) - RunLogCap + 1, Len(log))
  ELSE log

\* The `while let Ok(line) = rx.try_recv()` loop of pump_run_log over the
\* lines in the channel, each pushed and the log truncated after each push
\* (the lines are taken in halves, in order, to keep the evaluation shallow).
RECURSIVE Pumped(_, _)
Pumped(log, ch) ==
  IF ch = << >> THEN log
  ELSE IF Len(ch) = 1 THEN Truncated(Append(log, ch[1]))
  ELSE LET half == Len(ch) \div 2
           first == Pumped(log, SubSeq(ch, 1, half))
       IN IF Len(first) >= 0 THEN Pumped(first, SubSeq(ch, half + 1, Len(ch)))
          ELSE first

\* Mutant: start_run asks only whether a project is open.
RunRefusalProjectOnly(proj, child) ==
  IF proj = None THEN Some("no project open") ELSE None

\* The two early returns of start_run: Option of the status they leave.
RunRefusal(proj, child) ==
  IF proj = None THEN Some("no project open")
  ELSE IF child # None THEN Some("runner already active")
  ELSE None

\* start_run without a project or with a process tracked.
StartRunRefused ==
  /\ ~exited
  /\ upc = "idle"
  /\ RunRefusal(project, run_child) # None
  /\ last_log' = RunRefusal(project, run_child)
  /\ UNCHANGED <<project, checkVars, watchVars, tickVars, uiVars, auto, ronVars, sceneVars, wthreads, edited, runVars, schemaVars>>

\* start_run, cmd.spawn() succeeds: the process runs, its output is piped to
\* a new channel by two reader threads, the log is cleared.
StartRun ==
  /\ ~exited
  /\ upc = "idle"
  /\ RunRefusal(project, run_child) = None
  /\ started < MaxRuns
  /\ started' = started + 1
  /\ running' = running \cup {started + 1}
  /\ run_child' = Some(started + 1)
  /\ run_rx' = Some(<< >>)
  /\ run_log' = << >>
  /\ pushed' = << >>
  /\ last_log' = <<"runner started">>
  /\ UNCHANGED <<project, checkVars, watchVars, tickVars, uiVars, auto, ronVars, sceneVars, wthreads, edited, schemaVars,
                 exited, printed, exports, stops>>

\* start_run, cmd.spawn() fails.
StartRunSpawnFail ==
  /\ ~exited
  /\ upc = "idle"
  /\ RunRefusal(project, run_child) = None
  /\ last_log' = <<"failed to start runner: ", SpawnError>>
  /\ UNCHANGED <<project, checkVars, watchVars, tickVars, uiVars, auto, ronVars, sceneVars, wthreads, edited, runVars, schemaVars>>

\* A reader thread of the tracked process sends the next lines of its
\* stream: tx.send(format!("[out] {line}")).
ReaderSends ==
  /\ run_child # None
  /\ printed + Block(printed) <= MaxRunLines
  /\ run_rx' = Some(run_rx[1] \o Lines(Stream(printed), run_child[1], printed,
                                       Block(printed)))
  /\ printed' = printed + Block(printed)
  /\ UNCHANGED <<project, last_log, checkVars, watchVars, tickVars, uiVars, auto, ronVars, sceneVars, wthreads, edited,
                 schemaVars, run_child, run_log, running, exited, pushed, exports,
                 started, stops>>

\* Mutant: a process that has exited is no longer tracked.
ReleasedOnExit(child) == None

\* self.run_child when the process has exited by itself: nothing polls the
\* child, the field is as it was.
TrackedAfterExit(child) == child

\* The tracked process exits by itself; it stays tracked.
ChildExits ==
  /\ run_child # None
  /\ run_child[1] \in running
  /\ running' = running \ {run_child[1]}
  /\ run_child' = TrackedAfterExit(run_child)
  /\ UNCHANGED <<project, last_log, checkVars, watchVars, tickVars, uiVars, auto, ronVars, sceneVars, wthreads, edited,
                 schemaVars, run_rx, run_log, exited, pushed, printed, exports,
                 started, stops>>

\* pump_run_log in update, with lines waiting.
PumpRunLog ==
  /\ ~exited
  /\ upc = "idle"
  /\ run_rx # None
  /\ run_rx[1] # << >>
  /\ run_log' = Pumped(run_log, run_rx[1])
  /\ pushed' = pushed \o run_rx[1]
  /\ run_rx' = Some(<< >>)
  /\ UNCHANGED <<project, last_log, checkVars, watchVars, tickVars, uiVars, auto, ronVars, sceneVars, wthreads, edited,
                 schemaVars, run_child, running, exited, printed, exports, started, stops>>

\* Mutant: the process is not killed.
NotKilled(ps, id) == ps

\* child.kill() and child.wait(): the process is gone.
Killed(ps, id) == ps \ {id}

\* stop_run, called from `from` ("button" or "exit").
StopRunFrom(from) ==
  /\ IF run_child # None
     THEN /\ running' = Killed(running, run_child[1])
          /\ stops' = Append(stops, [id |-> run_child[1], from |-> from,
                                     alive |-> run_child[1] \in running])
          /\ last_log' = <<"runner stopped">>
     ELSE UNCHANGED <<running, stops, last_log>>
  /\ run_child' = None
  /\ run_rx' = None

\* The Stop buttons.
StopRun ==
  /\ ~exited
  /\ upc = "idle"
  /\ StopRunFrom("button")
  /\ UNCHANGED <<project, checkVars, watchVars, tickVars, uiVars, auto, ronVars, sceneVars, wthreads, edited, schemaVars,
                 run_log, exited, pushed, printed, exports, started>>

\* EditorApp::on_exit
OnExit ==
  /\ ~exited
  /\ upc = "idle"
  /\ StopRunFrom("exit")
  /\ exited' = TRUE
  /\ UNCHANGED <<project, checkVars, watchVars, tickVars, uiVars, auto, ronVars, sceneVars, wthreads, edited, schemaVars,
                 run_log, pushed, printed, exports, started>>

\* What a run of the exporter may do: spawned: cmd.output() returned Ok;
\* status: its exit code; nout, nerr: the lines it printed on stdout and
\* stderr; wrote: Option of the schema it wrote to design/.schema.ron.
Export(spawned, status, nout, nerr, wrote) ==
  [spawned |-> spawned, status |-> status, nout |-> nout, nerr |-> nerr, wrote |-> wrote]

\* The schema file after the exporter ran.
Exported(f, out) ==
  IF out.wrote = None THEN f
  ELSE Some([text |-> SchemaText(out.wrote[1]), mtime |-> now])

\* The export handler once build_meta::export_schema has returned `out` for
\* the run numbered `run`: the output is appended to the log, the log is
\* truncated, and a run that exited with 0 is followed by a load of the
\* schema file as it is by then.
ExportHandled(out, run) ==
  IF ~out.spawned
  THEN /\ last_log' = <<"Failed to run exporter: ", SpawnError>>
       /\ UNCHANGED <<run_log, pushed, printed, script_schema, schema_mtime, sdid>>
  ELSE /\ LET new == Lines("[export/stdout] ", run, 0, out.nout)
                     \o Lines("[export/stderr] ", run, 0, out.nerr)
          IN /\ run_log' = Truncated(run_log \o new)
             /\ pushed' = pushed \o new
       /\ UNCHANGED printed
       /\ IF out.status = 0
          THEN /\ script_schema' = SchemaAfterLoad(script_schema, sfile')
               /\ schema_mtime' = BaselineAfterLoad(schema_mtime, sfile')
               /\ last_log' = StatusAfterLoad(sfile')
               /\ sdid' = SchemaDid("export", TRUE, SchemaFound(sfile') # None)
          ELSE /\ last_log' = <<"Export failed (exit ", out.status, "). See console.">>
               /\ sdid' = SchemaDid("export", FALSE, FALSE)
               /\ UNCHANGED <<script_schema, schema_mtime>>

\* The "Export meta" button, the exporter's run taken as one step:
\* build_meta::export_schema runs to its end and the handler follows.
ExportMeta(outs) ==
  /\ ~exited
  /\ upc = "idle"
  /\ project # None
  /\ exports < MaxExports
  /\ exports' = exports + 1
  /\ \E out \in outs :
       /\ sfile' = Exported(sfile, out)
       /\ ExportHandled(out, exports + 1)
  /\ UNCHANGED <<project, checkVars, watchVars, ronVars, tickVars, uiVars, auto, sceneVars, wthreads, edited,
                 run_child, run_rx, running, exited, started, stops, sseen>>

\* The "Export meta" button, followed step by step. cmd.output() starts the
\* exporter and waits for it: the UI thread stands in the call.
ExportSpawn ==
  /\ ~exited
  /\ upc = "idle"
  /\ project # None
  /\ exports < MaxExports
  /\ exports' = exports + 1
  /\ upc' = "export"
  /\ xrun' = [st |-> "running", out |-> None]
  /\ UNCHANGED <<project, last_log, checkVars, watchVars, ronVars, diskVars, loc, last, touched,
                 wthreads, uiVars, auto, edited, run_child, run_rx, run_log, running, exited, pushed,
                 printed, started, stops, schemaVars, killed>>

\* The exporter process ends with outcome `out`, having written what it wrote.
ExporterExits(out) ==
  /\ xrun.st = "running"
  /\ out.spawned
  /\ xrun' = [st |-> "done", out |-> Some(out)]
  /\ sfile' = Exported(sfile, out)
  /\ UNCHANGED <<project, last_log, checkVars, watchVars, ronVars, sceneVars, wthreads, uiVars, auto, edited,
                 runVars, script_schema, schema_mtime, sdid, sseen, killed>>

\* cmd.output() returns with the exporter's status and output; the handler
\* follows.
ExportCollect ==
  /\ upc = "export"
  /\ xrun.st = "done"
  /\ sfile' = sfile
  /\ ExportHandled(xrun.out[1], exports)
  /\ upc' = "idle"
  /\ xrun' = NoExporter
  /\ UNCHANGED <<project, checkVars, watchVars, ronVars, diskVars, loc, last, touched,
                 wthreads, uiVars, auto, edited, run_child, run_rx, running, exited, exports, started,
                 stops, sseen, killed>>

\* stop_run followed step by step: child.kill() sends the signal and
\* child.wait() waits for the process to be gone.
StopKill ==
  /\ ~exited
  /\ upc = "idle"
  /\ run_child # None
  /\ killed' = killed \cup {run_child[1]}
  /\ stops' = Append(stops, [id |-> run_child[1], from |-> "button",
                             alive |-> run_child[1] \in running])
  /\ upc' = "stop"
  /\ UNCHANGED <<project, last_log, checkVars, watchVars, ronVars, diskVars, loc, last, touched,
                 wthreads, uiVars, auto, edited, schemaVars, xrun, run_child, run_rx, run_log, running,
                 exited, pushed, printed, exports, started>>

\* A run process that was sent the kill signal ends.
KilledProcessEnds ==
  /\ \E id \in killed \cap running : running' = running \ {id}
  /\ UNCHANGED <<project, last_log, checkVars, watchVars, ronVars, sceneVars, wthreads, edited,
                 schemaVars, run_child, run_rx, run_log, exited, pushed, printed, exports,
                 started, stops, tickVars, uiVars, auto>>

\* child.wait() returns: the rest of stop_run.
StopReap ==
  /\ upc = "stop"
  /\ run_child[1] \notin running
  /\ run_child' = None
  /\ run_rx' = None
  /\ last_log' = <<"runner stopped">>
  /\ upc' = "idle"
  /\ UNCHANGED <<project, checkVars, watchVars, ronVars, diskVars, loc, last, touched,
                 wthreads, edited, schemaVars, run_log, running, exited, pushed, printed,
                 exports, started, stops, tickVars, uiVars, auto>>

\* Runs of the exporter seen from the log: one that prints on both streams
\* and succeeds, one that fails with code 3, one that cannot be spawned.
LogExports ==
  { Export(TRUE, 0, 2, 1, None),
    Export(TRUE, 3, 0, 1, None),
    Export(FALSE, 0, 0, 0, None) }

\* Runs of the exporter seen from the schema: one that writes a schema, one
\* that exits with 0 without writing, one that fails.
SchemaExports ==
  { Export(TRUE, 0, 1, 0, Some(SchemaTwo)),
    Export(TRUE, 0, 0, 1, None),
    Export(TRUE, 3, 0, 1, None) }

\* What the verification processes print while the UI thread is followed.
TickLines == {l \in OutputLines : l.kind = "junk"}

\* Runs of the exporter the UI thread waits for: one that succeeds, one
\* that fails.
TickExports ==
  { Export(TRUE, 0, 0, 1, None),
    Export(TRUE, 3, 0, 1, None) }

\* ------------------------------------------------------------ watch worker
\* Duration::from_millis(250), the debounce window.
Debounce == 250
\* Duration::from_secs(1), in milliseconds: how far back last_fire starts.
Backdate == 1000

\* The paths of the four watcher.watch calls, in call order, below the root.
WatchRoots == <<"src", "design", "Cargo.toml", "project.ron">>

\* Paths of events as the filter sees them: the text `s` of the path below
\* the root, split at "/".
SrcFile == <<"src", "main.rs">>
NestedFile == <<"src", "target", "aim.rs">>
SceneFile == <<"design", "initial.scene.ron">>
ArtifactFile == <<"target", "debug", "app">>
GitFile == <<".git", "index.lock">>

\* notify::Result<Event>: an Err of the event source, or an event with its
\* kind and paths.
ErrorItem == [ok |-> FALSE, kind |-> "", paths |-> << >>]
Event(kind, paths) == [ok |-> TRUE, kind |-> kind, paths |-> paths]

\* What the event source may deliver.
SourceItems ==
  { ErrorItem,
    Event("Access", <<SrcFile>>),
    Event("Other", << >>),
    Event("Modify", << >>),
    Event("Modify", <<SrcFile>>),
    Event("Create", <<SceneFile>>),
    Event("Modify", <<NestedFile>>),
    Event("Modify", <<GitFile, ArtifactFile>>),
    Event("Modify", <<ArtifactFile, SrcFile>>),
    Event("Modify", <<ArtifactFile, NestedFile>>) }

\* What the event source delivers for changes of the sources: a change of
\* src/main.rs and a read of it.
ChangeItems == {Event("Modify", <<SrcFile>>), Event("Access", <<SrcFile>>)}

\* The event source reports on registered paths only: an item comes for an
\* error, for an event without paths, or for an event one of whose paths is
\* below a path being watched.
Delivers(item) ==
  /\ watched # {}
  /\ \/ ~item.ok
     \/ item.paths = << >>
     \/ \E i \in DOMAIN item.paths : item.paths[i][1] \in watched

\* matches!(event.kind, EventKind::Access(_) | EventKind::Other)
Noisy(kind) == kind \in {"Access", "Other"}

\* s.starts_with("d/") || s == "d" || s.contains("/d/")
Names(s, d) ==
  \/ (Len(s) >= 2 /\ s[1] = d)
  \/ s = <<d>>
  \/ \E i \in 2..(Len(s) - 1) : s[i] = d

\* The negated closure body: the path is under target or .git.
Ignored(s) == Names(s, "target") \/ Names(s, ".git")

\* event.paths.iter().any(|p| !(..))
Interesting(paths) == \E i \in DOMAIN paths : ~Ignored(paths[i])

\* last_fire.elapsed() < Duration::from_millis(250)
TooSoon(t, fired) == t - fired < Debounce

\* What is known of the loop's past when it has handled nothing.
NoHistory == [sent_at |-> None, kept_at |-> None, erred |-> FALSE, out |-> 0]

\* What the loop did with `item` at time `clock`: kept: the item passed the
\* filters; sent: it was forwarded; before: the history until then.
Handled(item, kept, sent) ==
  Some([at |-> clock, item |-> item, kept |-> kept, sent |-> sent, before |-> khist])

\* RecommendedWatcher::new succeeds.
WatcherCreated ==
  /\ kpc = "new"
  /\ kpc' = "register"
  /\ UNCHANGED <<project, last_log, checkVars, sceneVars, appVars, registered, watched, inner,
                 clock, last_fire, arrived, khist, handled>>

\* RecommendedWatcher::new fails: .expect("watcher") panics, the thread ends.
WatcherCreateFails ==
  /\ kpc = "new"
  /\ kpc' = "dead"
  /\ UNCHANGED <<project, last_log, checkVars, sceneVars, appVars, registered, watched, inner,
                 clock, last_fire, arrived, khist, handled>>

\* let _ = watcher.watch(path, mode): the registration succeeds or fails, the
\* result is dropped.
Register ==
  /\ kpc = "register"
  /\ registered < Len(WatchRoots)
  /\ \E ok \in BOOLEAN :
       watched' = IF ok THEN watched \cup {WatchRoots[registered + 1]} ELSE watched
  /\ registered' = registered + 1
  /\ UNCHANGED <<project, last_log, checkVars, sceneVars, appVars, kpc, inner, clock, last_fire,
                 arrived, khist, handled>>

\* let mut last_fire = Instant::now().checked_sub(Duration::from_secs(1))...
WatchStartLoop ==
  /\ kpc = "register"
  /\ registered = Len(WatchRoots)
  /\ last_fire' = clock - Backdate
  /\ kpc' = "loop"
  /\ UNCHANGED <<project, last_log, checkVars, sceneVars, appVars, registered, watched, inner,
                 clock, arrived, khist, handled>>

\* Nothing has changed on disk and the bridge has sent no job.
NoChanges == [changed_at |-> None, bridged |-> 0, job_at |-> None]

\* The item is an event that passes the loop's filters.
Survives(item) == item.ok /\ ~Noisy(item.kind) /\ Interesting(item.paths)

\* The watcher's callback: inner_tx.send(res).
Deliver(item) ==
  /\ kpc \in {"register", "loop"}
  /\ arrived < MaxArrivals
  /\ Delivers(item)
  /\ inner' = Send(inner, item)
  /\ arrived' = arrived + 1
  /\ UNCHANGED <<project, last_log, checkVars, sceneVars, appVars, kpc, registered, watched,
                 clock, last_fire, khist, handled>>

\* The watcher's callback, the time of a change that passes the filters noted.
DeliverChange(item) ==
  /\ kpc \in {"register", "loop"}
  /\ arrived < MaxArrivals
  /\ Delivers(item)
  /\ inner' = Send(inner, item)
  /\ arrived' = arrived + 1
  /\ auto' = [auto EXCEPT !.changed_at = IF Survives(item) THEN Some(clock) ELSE @]
  /\ UNCHANGED <<project, last_log, checkVars, sceneVars, wthreads, edited, runVars, schemaVars,
                 ronVars, tickVars, uiVars, kpc, registered, watched, clock, last_fire,
                 khist, handled>>

\* The bridging thread of open_project takes an event the watch worker
\* forwarded and sends a check job for the project's root (project A).
WatchBridge ==
  /\ auto.bridged < khist.out
  /\ Submit("A")
  /\ auto' = [auto EXCEPT !.bridged = @ + 1, !.job_at = Some(clock)]
  /\ UNCHANGED <<project, last_log, sceneVars, watchVars, wthreads, edited, runVars, schemaVars,
                 ronVars, tickVars, uiVars, results, wpc, wjob, wdiags, wlines, procs,
                 bridges, emitted, drained, burst, wexit>>

\* Time passes while the loop waits in inner_rx.recv().
ClockTick ==
  /\ kpc = "loop"
  /\ \E d \in {100, 150} :
       /\ clock + d <= MaxClock
       /\ clock' = clock + d
  /\ UNCHANGED <<project, last_log, checkVars, sceneVars, appVars, kpc, registered, watched,
                 inner, last_fire, arrived, khist, handled>>

\* Mutant: an error of the event source ends the loop.
StopOnSourceError == "dead"

\* `let Ok(event) = res else { continue }`: where the thread goes on.
AfterSourceError == "loop"

\* The loop takes an Err item: continue.
WatchSkipError ==
  /\ kpc = "loop"
  /\ inner # << >>
  /\ ~RecvMsg(inner).ok
  /\ inner' = RecvRest(inner)
  /\ kpc' = AfterSourceError
  /\ khist' = [khist EXCEPT !.erred = TRUE]
  /\ handled' = Handled(RecvMsg(inner), FALSE, FALSE)
  /\ UNCHANGED <<project, last_log, checkVars, sceneVars, appVars, registered, watched, clock,
                 last_fire, arrived>>

\* The loop takes an event of a noisy kind: continue.
WatchDropNoisy ==
  /\ kpc = "loop"
  /\ inner # << >>
  /\ RecvMsg(inner).ok
  /\ Noisy(RecvMsg(inner).kind)
  /\ inner' = RecvRest(inner)
  /\ handled' = Handled(RecvMsg(inner), FALSE, FALSE)
  /\ UNCHANGED <<project, last_log, checkVars, sceneVars, appVars, kpc, registered, watched,
                 clock, last_fire, arrived, khist>>

\* The loop takes an event none of whose paths is interesting: continue.
WatchDropIgnored ==
  /\ kpc = "loop"
  /\ inner # << >>
  /\ RecvMsg(inner).ok
  /\ ~Noisy(RecvMsg(inner).kind)
  /\ ~Interesting(RecvMsg(inner).paths)
  /\ inner' = RecvRest(inner)
  /\ handled' = Handled(RecvMsg(inner), FALSE, FALSE)
  /\ UNCHANGED <<project, last_log, checkVars, sceneVars, appVars, kpc, registered, watched,
                 clock, last_fire, arrived, khist>>

\* Mutant: an event dropped by the gate restarts the window.
LastFireRestarted(t, fired) == t

\* last_fire after `if last_fire.elapsed() < .. { continue; }`: not assigned.
LastFireAfterDrop(t, fired) == fired

\* The loop takes an event that passes the filters within the window of the
\* last one it forwarded: continue.
WatchDebounced ==
  /\ kpc = "loop"
  /\ inner # << >>
  /\ RecvMsg(inner).ok
  /\ ~Noisy(RecvMsg(inner).kind)
  /\ Interesting(RecvMsg(inner).paths)
  /\ TooSoon(clock, last_fire)
  /\ inner' = RecvRest(inner)
  /\ khist' = [khist EXCEPT !.kept_at = Some(clock)]
  /\ handled' = Handled(RecvMsg(inner), TRUE, FALSE)
  /\ last_fire' = LastFireAfterDrop(clock, last_fire)
  /\ UNCHANGED <<project, last_log, checkVars, sceneVars, appVars, kpc, registered, watched,
                 clock, arrived>>

\* Mutant: a forwarded event leaves last_fire as it was.
LastFireKept(t, fired) == fired

\* last_fire = Instant::now()
LastFire(t, fired) == t

\* The loop takes an event that passes the filters and the debounce gate:
\* last_fire is set and the event is sent on tx.
WatchForward ==
  /\ kpc = "loop"
  /\ inner # << >>
  /\ RecvMsg(inner).ok
  /\ ~Noisy(RecvMsg(inner).kind)
  /\ Interesting(RecvMsg(inner).paths)
  /\ ~TooSoon(clock, last_fire)
  /\ inner' = RecvRest(inner)
  /\ last_fire' = LastFire(clock, last_fire)
  /\ khist' = [khist EXCEPT !.kept_at = Some(clock), !.sent_at = Some(clock),
                            !.out = @ + 1]
  /\ handled' = Handled(RecvMsg(inner), TRUE, TRUE)
  /\ UNCHANGED <<project, last_log, checkVars, sceneVars, appVars, kpc, registered, watched,
                 clock, arrived>>

\* ------------------------------------------------------------ scene documents
\* The project directory whose project.ron and scene file `cfg` and `file` are.
Dir == "A"

\* root.join("design/initial.scene.ron")
ScenePath == "design/initial.scene.ron"

Component(type_id, data) == [type_id |-> type_id, data |-> data]
Entity(id, components) == [id |-> id, components |-> components]

\* CompData::default(): every field None.
NoData ==
  [translation |-> None, look_at |-> None, rot_x_deg |-> None, shape |-> None,
   radius |-> None, x |-> None, y |-> None, z |-> None, color |-> None,
   shadows_enabled |-> None]

\* Sample SceneDoc values: the two-entity scene of the specification's
\* scenario and a one-entity scene.
SceneTwo ==
  [entities |->
     << Entity("ball",
          << Component("Transform", [NoData EXCEPT !.translation = Some(<<0, 0, 0>>)]),
             Component("Mesh3d", [NoData EXCEPT !.shape = Some("Circle"),
                                                !.radius = Some(2)]),
             Component("Material3d", [NoData EXCEPT !.color = Some(<<1, 0, 0, 1>>)]) >>),
        Entity("camera", << Component("Camera3d", NoData) >>) >>]
SceneOne ==
  [entities |->
     << Entity("light",
          << Component("PointLight", [NoData EXCEPT !.shadows_enabled = Some(TRUE)]) >>) >>]
SceneDocs == {SceneOne, SceneTwo}

\* ron::ser::to_string_pretty(scene, pretty): the text of a scene.
RonText(scene) == [kind |-> "scene", entities |-> scene.entities]

\* A file content that is UTF-8 but no SceneDoc (a half-written or empty file).
Garbled == [kind |-> "garbled", entities |-> << >>]
\* A file content that is not UTF-8: fs::read_to_string fails on it.
Binary == [kind |-> "binary", entities |-> << >>]

\* What another program may leave in the scene file.
Texts == {RonText(d) : d \in SceneDocs} \cup {Garbled, Binary}

\* ron::from_str::<SceneDoc>(&txt): Option of the parsed document.
ParseScene(text) ==
  IF text.kind = "scene" THEN Some([entities |-> text.entities]) ELSE None

\* fs::read_to_string(path): Option of the text.
ReadToString(f) ==
  IF f = None \/ f[1].text.kind = "binary" THEN None ELSE Some(f[1].text)

\* read_to_string then ron::from_str, as open and reload chain them: Option
\* of the document read from the file.
Reparsed(f) ==
  IF ReadToString(f) = None THEN None ELSE ParseScene(ReadToString(f)[1])

\* fs::metadata(path) then modified(): Option of the modification time.
Modified(f) == IF f = None THEN None ELSE Some(f[1].mtime)

\* Path::exists
Exists(f) == f # None

\* ------------------------------------------------------------ the disk
\* Another program writes the scene file (creating it if need be).
ExternalWrite(text) ==
  /\ file' = Some([text |-> text, mtime |-> now])
  /\ touched' = TRUE
  /\ UNCHANGED <<project, last_log, checkVars, watchVars, appVars, cfg, now, upc, loc, last>>

\* Another program deletes the scene file.
ExternalDelete ==
  /\ file # None
  /\ file' = None
  /\ touched' = TRUE
  /\ UNCHANGED <<project, last_log, checkVars, watchVars, appVars, cfg, now, upc, loc, last>>

\* Another program writes, breaks or deletes project.ron.
ExternalConfig(c) ==
  /\ c # cfg
  /\ cfg' = c
  /\ UNCHANGED <<project, last_log, checkVars, watchVars, appVars, file, now, upc, loc, last, touched>>

\* Time passes: later writes get a later timestamp.
Tick ==
  /\ now < MaxTime
  /\ now' = now + 1
  /\ UNCHANGED <<project, last_log, checkVars, watchVars, appVars, cfg, file, upc, loc, last, touched>>

\* ------------------------------------------------------------ ProjectState::open
\* A ProjectState operation of the UI thread ends: what it did is recorded.
Ends(did) ==
  /\ upc' = "idle"
  /\ loc' = NoLocals
  /\ last' = [did EXCEPT !.after =
                IF did.op = "reload" /\ ~touched /\ last.op \in {"reload", "save"}
                THEN <<last.op, last.ok>> ELSE << >>]
  /\ touched' = FALSE

\* The `?` of open: the error reaches open_project's Err arm.
OpenFails ==
  /\ Ends(Did("open", FALSE, FALSE, FALSE))
  /\ last_log' = <<"Failed to open project">>
  /\ project' = AfterFailedOpen(project)
  /\ UNCHANGED <<checkVars, watchVars, appVars, diskVars>>

\* Mutant: a project.ron that does not parse is taken for a default config.
ConfigLoadsLenient(c) == c # "missing"

\* fs::read_to_string(&cfg_path) and ron::from_str::<ProjectConfig>.
ConfigLoads(c) == c = "ok"

\* project.ron is missing or does not parse.
OpenConfigError ==
  /\ upc = "idle"
  /\ ~ConfigLoads(cfg)
  /\ OpenFails

\* The config loads; `if design_path.exists()` is true.
OpenProbeFound ==
  /\ upc = "idle"
  /\ ConfigLoads(cfg)
  /\ Exists(file)
  /\ upc' = "open_read"
  /\ loc' = NoLocals
  /\ UNCHANGED <<project, last_log, checkVars, watchVars, appVars, diskVars, last, touched>>

\* The config loads; `if design_path.exists()` is false: (None, None).
OpenProbeMissing ==
  /\ upc = "idle"
  /\ ConfigLoads(cfg)
  /\ ~Exists(file)
  /\ upc' = "open_build"
  /\ loc' = NoLocals
  /\ UNCHANGED <<project, last_log, checkVars, watchVars, appVars, diskVars, last, touched>>

\* read_to_string and ron::from_str of the scene file succeed.
OpenRead ==
  /\ upc = "open_read"
  /\ Reparsed(file) # None
  /\ loc' = [loc EXCEPT !.scene = Reparsed(file)]
  /\ upc' = "open_stat"
  /\ UNCHANGED <<project, last_log, checkVars, watchVars, appVars, diskVars, last, touched>>

\* read_to_string fails (the file is gone or not UTF-8) or the text is no scene.
OpenReadError ==
  /\ upc = "open_read"
  /\ Reparsed(file) = None
  /\ OpenFails

\* fs::metadata(&design_path)?.modified().ok()
OpenStat ==
  /\ upc = "open_stat"
  /\ Exists(file)
  /\ loc' = [loc EXCEPT !.mtime = Modified(file)]
  /\ upc' = "open_build"
  /\ UNCHANGED <<project, last_log, checkVars, watchVars, appVars, diskVars, last, touched>>

\* fs::metadata fails: the file is gone.
OpenStatError ==
  /\ upc = "open_stat"
  /\ ~Exists(file)
  /\ OpenFails

\* design_path: if design_path.exists() { Some(design_path) } else { None }
PathIfExists(f) == IF Exists(f) THEN Some(ScenePath) ELSE None

\* Ok(Self { .. }), stored by open_project (app.rs:223), which then loads the
\* script schema (none in this directory).
OpenBuild ==
  /\ upc = "open_build"
  /\ project' = Some(ProjectState(Dir, loc.scene, PathIfExists(file), loc.mtime))
  /\ LoadScriptSchema("open")
  /\ edited' = None
  /\ Ends(Did("open", TRUE, loc.scene # None, loc.scene # None))
  /\ UNCHANGED <<checkVars, watchVars, tickVars, uiVars, auto, ronVars, wthreads, runVars, sfile, sseen, diskVars>>

\* ------------------------------------------------------------ save_design
\* The two `let Some(..) else bail!` of save_design: Option of the error.
SaveRefusal(p) ==
  IF p.design_path = None THEN Some("no design file")
  ELSE IF p.design_scene = None THEN Some("no scene in memory")
  ELSE None

\* "Save Scene" with no path or no scene: save_design bails.
SaveRefused ==
  /\ upc = "idle"
  /\ project # None
  /\ SaveRefusal(project[1]) # None
  /\ last_log' = <<"save failed:">> \o SaveRefusal(project[1])
  /\ Ends(Did("save", FALSE, FALSE, FALSE))
  /\ UNCHANGED <<project, checkVars, watchVars, appVars, diskVars>>

\* fs::write(path, text) succeeds: the file holds the text, stamped now.
SaveWrite ==
  /\ upc = "idle"
  /\ project # None
  /\ SaveRefusal(project[1]) = None
  /\ file' = Some([text |-> RonText(project[1].design_scene[1]), mtime |-> now])
  /\ upc' = "save_stat"
  /\ UNCHANGED <<project, last_log, checkVars, watchVars, appVars, cfg, now, loc, last, touched>>

\* Mutant: the baseline is dropped before the write is known to have worked.
AfterWriteErrorNoBaseline(p) == [p EXCEPT !.design_mtime = None]

\* The session after `fs::write(path, text)?` returned the error.
AfterWriteError(p) == p

\* fs::write fails: the file could not be created (it is as it was) or the
\* write broke off (it is truncated).
SaveWriteError ==
  /\ upc = "idle"
  /\ project # None
  /\ SaveRefusal(project[1]) = None
  /\ \/ file' = file
     \/ file' = Some([text |-> Garbled, mtime |-> now])
  /\ project' = Some(AfterWriteError(project[1]))
  /\ last_log' = <<"save failed:", "write">>
  /\ Ends(Did("save", FALSE, FALSE, FALSE))
  /\ UNCHANGED <<checkVars, watchVars, appVars, cfg, now>>

\* Mutant: save leaves the baseline it had.
BaselineKept(p, f) == p.design_mtime

\* The baseline save stores: fs::metadata(path).ok().and_then(|m| m.modified().ok())
BaselineAfterSave(p, f) == Modified(f)

\* self.design_mtime = ...; Ok(())
SaveStat ==
  /\ upc = "save_stat"
  /\ project' = Some([project[1] EXCEPT !.design_mtime = BaselineAfterSave(project[1], file)])
  /\ last_log' = <<"scene saved">>
  /\ edited' = None
  /\ Ends(Did("save", TRUE, FALSE, FALSE))
  /\ UNCHANGED <<checkVars, watchVars, tickVars, uiVars, auto, ronVars, wthreads, runVars, schemaVars, diskVars>>

\* ------------------------------------------------------------ reload_design_if_changed
\* Mutant: a file as old as the baseline counts as changed.
IsNewerOrSame(baseline, mt) == baseline = None \/ mt >= baseline[1]

\* self.design_mtime.map(|t| mt > t).unwrap_or(true)
IsNewer(baseline, mt) == baseline = None \/ mt > baseline[1]

\* The three early returns and the mtime test: the file is to be read again.
ReloadWanted(p, f) ==
  /\ p.design_path # None
  /\ Modified(f) # None
  /\ IsNewer(p.design_mtime, Modified(f)[1])

\* Mutant: the baseline is advanced whether or not the file parsed.
ReloadedAdvancing(p, f) ==
  IF ReloadWanted(p, f)
  THEN [p EXCEPT !.design_scene = IF Reparsed(f) # None THEN Reparsed(f) ELSE @,
                 !.design_mtime = Modified(f)]
  ELSE p

\* Mutant: a reload replaces the document and forgets to store the baseline.
ReloadedNoBaseline(p, f) ==
  IF ReloadWanted(p, f) /\ Reparsed(f) # None
  THEN [p EXCEPT !.design_scene = Reparsed(f)]
  ELSE p

\* Mutant: a reload keeps the entities in memory that the file does not have.
ReloadedMerging(p, f) ==
  IF ReloadWanted(p, f) /\ Reparsed(f) # None
  THEN LET disk == Reparsed(f)[1].entities
           kept == IF p.design_scene = None THEN << >>
                   ELSE SelectSeq(p.design_scene[1].entities,
                                  LAMBDA e : \A i \in DOMAIN disk : disk[i] # e)
       IN [p EXCEPT !.design_scene = Some([entities |-> disk \o kept]),
                    !.design_mtime = Modified(f)]
  ELSE p

\* The session reload_design_if_changed leaves.
Reloaded(p, f) ==
  IF ReloadWanted(p, f) /\ Reparsed(f) # None
  THEN [p EXCEPT !.design_scene = Reparsed(f), !.design_mtime = Modified(f)]
  ELSE p

\* p.reload_design_if_changed() in EditorApp::update.
ReloadTick ==
  /\ upc = "idle"
  /\ project # None
  /\ project' = Some(Reloaded(project[1], file))
  /\ Ends(Did("reload",
              ReloadWanted(project[1], file) /\ Reparsed(file) # None,
              ReloadWanted(project[1], file),
              ReloadWanted(project[1], file) /\ ReadToString(file) # None))
  /\ UNCHANGED <<last_log, checkVars, watchVars, appVars, diskVars>>

\* ------------------------------------------------------------ the inspector
\* The inspector's widgets change the document in memory.
EditScene(d) ==
  /\ upc = "idle"
  /\ project # None
  /\ project[1].design_scene # None
  /\ project[1].design_scene # Some(d)
  /\ project' = Some([project[1] EXCEPT !.design_scene = Some(d)])
  /\ edited' = Some(d)
  /\ Ends(Did("edit", TRUE, FALSE, FALSE))
  /\ UNCHANGED <<last_log, checkVars, watchVars, tickVars, uiVars, auto, ronVars, wthreads, runVars, schemaVars, diskVars>>

\* A click on entity i (counted from 0) of the hierarchy panel, which lists
\* the entities of the scene in memory.
SelectEntity(i) ==
  /\ upc = "idle"
  /\ project # None
  /\ project[1].design_scene # None
  /\ i < Len(project[1].design_scene[1].entities)
  /\ selected_entity' = Some(i)
  /\ UNCHANGED <<project, last_log, checkVars, watchVars, sceneVars, wthreads, edited, runVars,
                 schemaVars, ronVars, tickVars, auto, inspected>>

\* scene.entities.get_mut(sel): is there an entity at index sel (from 0)?
GetMut(entities, sel) == sel < Len(entities)

\* The inspector panel with a scene and a selection:
\* scene.entities.get_mut(sel).expect("selected index valid while drawing").
\* A failed expect panics on the UI thread, which ends the editor.
DrawInspector ==
  /\ upc = "idle"
  /\ project # None
  /\ project[1].design_scene # None
  /\ selected_entity # None
  /\ IF GetMut(project[1].design_scene[1].entities, selected_entity[1])
     THEN inspected' = "entity" /\ upc' = upc
     ELSE inspected' = "panic" /\ upc' = "panicked"
  /\ UNCHANGED <<project, last_log, checkVars, watchVars, diskVars, loc, last, touched, wthreads,
                 edited, runVars, schemaVars, ronVars, tickVars, auto, selected_entity>>

\* ------------------------------------------------------------ RON text
\* The text ron::ser::to_string_pretty writes for a SceneDoc and
\* ron::from_str reads, as the sequence of its tokens (white space, which
\* the reader skips, is left out). A String is the sequence of its
\* characters, an f32 a whole number of tenths, and a string or number token
\* carries its characters as they stand in the text.
Tok(t, s) == [t |-> t, s |-> s]
Ident(name) == Tok("ident", <<name>>)
Punct(p) == Tok("punct", <<p>>)

\* The characters a string of the text may be made of.
Chars == {"a", "b", "\"", "\\", "n", "\n"}

\* Mutant: a backslash is written as it is.
EscapedCharQuotesOnly(c) ==
  IF c = "\"" THEN <<"\\", "\"">>
  ELSE IF c = "\n" THEN <<"\\", "n">>
  ELSE <<c>>

\* One character of a string as the serializer writes it between the quotes.
EscapedChar(c) ==
  IF c = "\"" THEN <<"\\", "\"">>
  ELSE IF c = "\\" THEN <<"\\", "\\">>
  ELSE IF c = "\n" THEN <<"\\", "n">>
  ELSE <<c>>

RECURSIVE Escaped(_)
Escaped(chars) ==
  IF chars = << >> THEN << >>
  ELSE EscapedChar(Head(chars)) \o Escaped(Tail(chars))

\* The reader's way back: Option of the characters; a backslash takes the
\* character after it, and a quote that is not escaped ends the string early.
RECURSIVE Unescaped(_)
Unescaped(raw) ==
  IF raw = << >> THEN Some(<< >>)
  ELSE IF raw[1] = "\""  THEN None
  ELSE IF raw[1] = "\\"
       THEN IF Len(raw) < 2 \/ raw[2] \notin {"\"", "\\", "n"} THEN None
            ELSE LET rest == Unescaped(SubSeq(raw, 3, Len(raw)))
                 IN IF rest = None THEN None
                    ELSE Some(<<IF raw[2] = "n" THEN "\n" ELSE raw[2]>> \o rest[1])
  ELSE LET rest == Unescaped(Tail(raw))
       IN IF rest = None THEN None ELSE Some(<<raw[1]>> \o rest[1])

\* Decimal digits.
DigitChars == <<"0", "1", "2", "3", "4", "5", "6", "7", "8", "9">>
DigitOf(c) == (CHOOSE i \in DOMAIN DigitChars : DigitChars[i] = c) - 1
IsDigit(c) == \E i \in DOMAIN DigitChars : DigitChars[i] = c

RECURSIVE Decimal(_)
Decimal(n) ==
  IF n < 10 THEN <<DigitChars[n + 1]>>
  ELSE Decimal(n \div 10) \o <<DigitChars[(n % 10) + 1]>>

RECURSIVE Number(_, _)
Number(chars, acc) ==
  IF chars = << >> THEN acc
  ELSE Number(Tail(chars), 10 * acc + DigitOf(Head(chars)))

Abs(v) == IF v < 0 THEN -v ELSE v

\* An f32 of v tenths as the serializer writes it: sign, whole part, point,
\* fraction ("2.0", "-1.5").
FormatF32(v) ==
  (IF v < 0 THEN <<"-">> ELSE << >>) \o Decimal(Abs(v) \div 10)
    \o <<".", DigitChars[(Abs(v) % 10) + 1]>>

\* The reader's float: Option of the tenths. An integer is read as a float.
ParseF32(chars) ==
  LET neg == chars # << >> /\ chars[1] = "-"
      body == IF neg THEN Tail(chars) ELSE chars
      dots == {i \in DOMAIN body : body[i] = "."}
      whole == IF dots = {} THEN body
               ELSE SubSeq(body, 1, (CHOOSE i \in dots : TRUE) - 1)
      frac == IF dots = {} THEN << >>
              ELSE SubSeq(body, (CHOOSE i \in dots : TRUE) + 1, Len(body))
  IN IF \/ Cardinality(dots) > 1
        \/ whole = << >>
        \/ Len(frac) > 1
        \/ \E i \in DOMAIN whole : ~IsDigit(whole[i])
        \/ \E i \in DOMAIN frac : ~IsDigit(frac[i])
     THEN None
     ELSE LET mag == 10 * Number(whole, 0) + Number(frac, 0)
          IN Some(IF neg THEN -mag ELSE mag)

\* The types of the document, each the sequence of its constructors:
\* <<"Option", "Tuple3">> is Option<(f32, f32, f32)>, <<"Vec", "EntityDoc">>
\* is Vec<EntityDoc>.
Field(name, ty, default) == [name |-> name, ty |-> ty, default |-> default]

\* The fields of the structs in declaration order; default: #[serde(default)].
Fields(struct) ==
  IF struct = "SceneDoc" THEN <<Field("entities", <<"Vec", "EntityDoc">>, FALSE)>>
  ELSE IF struct = "EntityDoc"
  THEN <<Field("id", <<"String">>, FALSE),
         Field("components", <<"Vec", "ComponentDoc">>, FALSE)>>
  ELSE IF struct = "ComponentDoc"
  THEN <<Field("type_id", <<"String">>, FALSE),
         Field("data", <<"CompData">>, TRUE)>>
  ELSE <<Field("translation", <<"Option", "Tuple3">>, TRUE),
         Field("look_at", <<"Option", "Tuple3">>, TRUE),
         Field("rot_x_deg", <<"Option", "f32">>, TRUE),
         Field("shape", <<"Option", "String">>, TRUE),
         Field("radius", <<"Option", "f32">>, TRUE),
         Field("x", <<"Option", "f32">>, TRUE),
         Field("y", <<"Option", "f32">>, TRUE),
         Field("z", <<"Option", "f32">>, TRUE),
         Field("color", <<"Option", "Tuple4">>, TRUE),
         Field("shadows_enabled", <<"Option", "bool">>, TRUE)>>

Structs == {"SceneDoc", "EntityDoc", "ComponentDoc", "CompData"}
FieldNames(struct) == {Fields(struct)[i].name : i \in DOMAIN Fields(struct)}
FieldNamed(struct, name) ==
  Fields(struct)[CHOOSE i \in DOMAIN Fields(struct) : Fields(struct)[i].name = name]

\* ------------------------------------------------------------ serializer
\* Serialize for a value of type ty, in the pretty form of save_design:
\* struct names written, every field and every element of a sequence
\* followed by a comma, the members of a tuple separated by commas.
RECURSIVE Ser(_, _), SerFields(_, _, _), SerElems(_, _), SerMembers(_)
Ser(ty, v) ==
  IF ty[1] = "String" THEN <<Tok("str", Escaped(v))>>
  ELSE IF ty[1] = "f32" THEN <<Tok("num", FormatF32(v))>>
  ELSE IF ty[1] = "bool" THEN <<Ident(IF v THEN "true" ELSE "false")>>
  ELSE IF ty[1] = "Option"
  THEN IF v = None THEN <<Ident("None")>>
       ELSE <<Ident("Some"), Punct("(")>> \o Ser(Tail(ty), v[1]) \o <<Punct(")")>>
  ELSE IF ty[1] = "Vec"
  THEN <<Punct("[")>> \o SerElems(Tail(ty), v) \o <<Punct("]")>>
  ELSE IF ty[1] \in {"Tuple3", "Tuple4"}
  THEN <<Punct("(")>> \o SerMembers(v) \o <<Punct(")")>>
  ELSE <<Ident(ty[1]), Punct("(")>> \o SerFields(ty[1], v, 1) \o <<Punct(")")>>

SerFields(struct, v, i) ==
  IF i > Len(Fields(struct)) THEN << >>
  ELSE LET f == Fields(struct)[i]
       IN <<Ident(f.name), Punct(":")>> \o Ser(f.ty, v[f.name]) \o <<Punct(",")>>
            \o SerFields(struct, v, i + 1)

SerElems(ty, vs) ==
  IF vs = << >> THEN << >>
  ELSE Ser(ty, Head(vs)) \o <<Punct(",")>> \o SerElems(ty, Tail(vs))

SerMembers(vs) ==
  IF vs = << >> THEN << >>
  ELSE Ser(<<"f32">>, Head(vs))
         \o (IF Len(vs) > 1 THEN <<Punct(",")>> ELSE << >>) \o SerMembers(Tail(vs))

\* ron::ser::to_string_pretty(scene, pretty)
ToStringPretty(scene) == Ser(<<"SceneDoc">>, scene)

\* ------------------------------------------------------------ reader
\* What reading a value gives: ok, the value, the tokens after it.
Read(v, rest) == [ok |-> TRUE, v |-> v, rest |-> rest]
NoRead == [ok |-> FALSE, v |-> << >>, rest |-> << >>]

Next1(toks, tok) == toks # << >> /\ toks[1] = tok
\* An optional comma.
Comma(toks) == IF Next1(toks, Punct(",")) THEN Tail(toks) ELSE toks

\* CompData::default(): every field None.
CompDataDefault == [n \in FieldNames("CompData") |-> None]

\* What a struct being read holds for a field before the field is read:
\* the Default of a field with #[serde(default)], nothing yet otherwise.
DefaultOf(f) ==
  IF f.ty[1] = "Option" THEN None
  ELSE IF f.ty[1] = "CompData" THEN CompDataDefault
  ELSE << >>

\* Deserialize for a value of type ty. A struct is read field by field, got
\* any order, each at most once, a missing one an error unless it has a
\* default; the texts read here name no field the struct does not have.
RECURSIVE De(_, _), DeFields(_, _, _, _), DeElems(_, _, _), DeMembers(_, _, _)
De(ty, toks) ==
  IF toks = << >> THEN NoRead
  ELSE IF ty[1] = "String"
  THEN IF toks[1].t = "str" /\ Unescaped(toks[1].s) # None
       THEN Read(Unescaped(toks[1].s)[1], Tail(toks)) ELSE NoRead
  ELSE IF ty[1] = "f32"
  THEN IF toks[1].t = "num" /\ ParseF32(toks[1].s) # None
       THEN Read(ParseF32(toks[1].s)[1], Tail(toks)) ELSE NoRead
  ELSE IF ty[1] = "bool"
  THEN IF toks[1] = Ident("true") THEN Read(TRUE, Tail(toks))
       ELSE IF toks[1] = Ident("false") THEN Read(FALSE, Tail(toks))
       ELSE NoRead
  ELSE IF ty[1] = "Option"
  THEN IF toks[1] = Ident("None") THEN Read(None, Tail(toks))
       ELSE IF toks[1] = Ident("Some") /\ Next1(Tail(toks), Punct("("))
       THEN LET got == De(Tail(ty), Tail(Tail(toks)))
            IN IF got.ok /\ Next1(got.rest, Punct(")"))
               THEN Read(Some(got.v), Tail(got.rest)) ELSE NoRead
       ELSE NoRead
  ELSE IF ty[1] = "Vec"
  THEN IF toks[1] = Punct("[") THEN DeElems(Tail(ty), Tail(toks), << >>) ELSE NoRead
  ELSE IF ty[1] \in {"Tuple3", "Tuple4"}
  THEN IF toks[1] = Punct("(")
       THEN DeMembers(IF ty[1] = "Tuple3" THEN 3 ELSE 4, Tail(toks), << >>)
       ELSE NoRead
  ELSE \* a struct: its name may be left out, another name is an error
       LET body == IF toks[1] = Ident(ty[1]) THEN Tail(toks) ELSE toks
       IN IF Next1(body, Punct("("))
          THEN DeFields(ty[1], Tail(body),
                        [n \in FieldNames(ty[1]) |-> DefaultOf(FieldNamed(ty[1], n))], {})
          ELSE NoRead

DeFields(struct, toks, acc, seen) ==
  IF toks = << >> THEN NoRead
  ELSE IF toks[1] = Punct(")")
  THEN IF \A i \in DOMAIN Fields(struct) :
            Fields(struct)[i].default \/ Fields(struct)[i].name \in seen
       THEN Read(acc, Tail(toks))
       ELSE NoRead
  ELSE IF /\ toks[1].t = "ident"
          /\ toks[1].s[1] \in FieldNames(struct) \ seen
          /\ Next1(Tail(toks), Punct(":"))
  THEN LET f == FieldNamed(struct, toks[1].s[1])
           got == De(f.ty, Tail(Tail(toks)))
       IN IF got.ok
          THEN DeFields(struct, Comma(got.rest), [acc EXCEPT ![f.name] = got.v],
                        seen \cup {f.name})
          ELSE NoRead
  ELSE NoRead

DeElems(ty, toks, acc) ==
  IF toks = << >> THEN NoRead
  ELSE IF toks[1] = Punct("]") THEN Read(acc, Tail(toks))
  ELSE LET got == De(ty, toks)
       IN IF got.ok /\ (Next1(got.rest, Punct(",")) \/ Next1(got.rest, Punct("]")))
          THEN DeElems(ty, Comma(got.rest), Append(acc, got.v))
          ELSE NoRead

DeMembers(n, toks, acc) ==
  IF toks = << >> THEN NoRead
  ELSE IF toks[1] = Punct(")") THEN IF Len(acc) = n THEN Read(acc, Tail(toks)) ELSE NoRead
  ELSE IF Len(acc) = n THEN NoRead
  ELSE LET got == De(<<"f32">>, toks)
       IN IF got.ok /\ (Next1(got.rest, Punct(",")) \/ Next1(got.rest, Punct(")")))
          THEN DeMembers(n, Comma(got.rest), Append(acc, got.v))
          ELSE NoRead

\* ron::from_str::<SceneDoc>(&txt): Option of the document; tokens after
\* the document are an error.
RonFromStr(toks) ==
  LET doc == De(<<"SceneDoc">>, toks)
  IN IF doc.ok /\ doc.rest = << >> THEN Some(doc.v) ELSE None

\* ------------------------------------------------------------ documents
\* Documents the inspector may leave in memory: payloads with fields
\* present and absent, strings with characters that need escaping, numbers
\* with and without a fraction and below zero.
SeqsUpTo(S, n) == UNION {[1..k -> S] : k \in 0..n}

DataMoved ==
  [CompDataDefault EXCEPT !.translation = Some(<<0, -15, 20>>), !.rot_x_deg = Some(5)]
DataShaped ==
  [CompDataDefault EXCEPT !.shape = Some(<<"a", "\"", "\\", "n">>),
                          !.radius = Some(120),
                          !.color = Some(<<10, 0, 0, 10>>),
                          !.shadows_enabled = Some(FALSE)]

RonComponents ==
  { Component(<<"a">>, CompDataDefault),
    Component(<<"b", "\\", "\n">>, DataMoved),
    Component(<< >>, DataShaped) }

RonEntities ==
  {Entity(id, cs) : id \in {<<"a">>, <<"\"">>}, cs \in SeqsUpTo(RonComponents, MaxComponents)}

RonDocs == {[entities |-> es] : es \in SeqsUpTo(RonEntities, MaxEntities)}

\* The inspector leaves document d in memory.
RonEdit(d) ==
  /\ rdoc = None
  /\ rdoc' = Some(d)
  /\ UNCHANGED <<project, last_log, checkVars, watchVars, tickVars, uiVars, auto, sceneVars, wthreads, edited,
                 runVars, schemaVars, rtext, rback>>

\* save_design serializes the document: the text of the scene file.
RonSave ==
  /\ rdoc # None
  /\ rtext = None
  /\ rtext' = Some(ToStringPretty(rdoc[1]))
  /\ UNCHANGED <<project, last_log, checkVars, watchVars, tickVars, uiVars, auto, sceneVars, wthreads, edited,
                 runVars, schemaVars, rdoc, rback>>

\* open or reload_design_if_changed parses the text: Some of ron::from_str's
\* Option.
RonLoad ==
  /\ rtext # None
  /\ rback = None
  /\ rback' = Some(RonFromStr(rtext[1]))
  /\ UNCHANGED <<project, last_log, checkVars, watchVars, tickVars, uiVars, auto, sceneVars, wthreads, edited,
                 runVars, schemaVars, rdoc, rtext>>

\* ------------------------------------------------------------ specification
\* EditorApp::new: no project, the worker started and waiting in recv.
Init ==
  /\ project = None
  /\ last_log = << >>
  /\ jobs = << >>
  /\ results = << >>
  /\ wpc = "recv"
  /\ wjob = None
  /\ wdiags = << >>
  /\ wlines = << >>
  /\ burst = 0
  /\ wexit = None
  /\ procs = {}
  /\ bridges = << >>
  /\ submitted = << >>
  /\ emitted = << >>
  /\ drained = << >>
  /\ cfg = "ok"
  /\ file = None
  /\ now = 0
  /\ upc = "idle"
  /\ loc = NoLocals
  /\ last = NoOp
  /\ touched = FALSE
  /\ kpc = "new"
  /\ registered = 0
  /\ watched = {}
  /\ inner = << >>
  /\ clock = 0
  /\ last_fire = 0
  /\ arrived = 0
  /\ khist = NoHistory
  /\ handled = None
  /\ wthreads = << >>
  /\ edited = None
  /\ run_child = None
  /\ run_rx = None
  /\ run_log = << >>
  /\ running = {}
  /\ exited = FALSE
  /\ pushed = << >>
  /\ printed = 0
  /\ exports = 0
  /\ started = 0
  /\ stops = << >>
  /\ script_schema = None
  /\ schema_mtime = None
  /\ sfile = None
  /\ sdid = NoLoad
  /\ sseen = None
  /\ rdoc = None
  /\ rtext = None
  /\ rback = None
  /\ xrun = NoExporter
  /\ killed = {}
  /\ selected_entity = None
  /\ inspected = "none"
  /\ auto = NoChanges

NextCheck ==
  \/ WorkerSpawn
  \/ WorkerSpawnFail
  \/ WorkerReadLine(CheckLines)
  \/ WorkerFinish
  \/ \E root \in Roots : OpenProjectOk(root)
  \/ \E root \in Roots : OpenProjectErr(root)
  \/ RunCargoCheck
  \/ \E i \in DOMAIN bridges : WatcherForward(i)
  \/ \E i \in DOMAIN bridges : BridgeForward(i)
  \/ UpdateDrain

SpecCheck == Init /\ [][NextCheck]_vars

\* The check worker and the orchestrator with the watch threads followed
\* from their start: a watch thread may fail to make its watcher.
NextSession ==
  \/ WorkerSpawn
  \/ WorkerSpawnFail
  \/ WorkerReadLine(CheckLines)
  \/ WorkerFinish
  \/ \E root \in Roots : OpenProjectSpawn(root)
  \/ \E root \in Roots : OpenProjectErr(root)
  \/ \E i \in DOMAIN bridges : WatchThreadUp(i)
  \/ \E i \in DOMAIN bridges : WatchThreadPanics(i)
  \/ \E i \in DOMAIN bridges : WatcherForward(i)
  \/ \E i \in DOMAIN bridges : BridgeForward(i)
  \/ UpdateDrain

SpecSession == Init /\ [][NextSession]_vars

\* The check worker on every kind of output line, with one project opened
\* and checked on demand.
NextWorker ==
  \/ WorkerSpawn
  \/ WorkerSpawnFail
  \/ WorkerReadLine(OutputLines)
  \/ WorkerFinish
  \/ \E root \in Roots : OpenProjectOk(root)
  \/ RunCargoCheck
  \/ UpdateDrain

SpecWorker == Init /\ [][NextWorker]_vars

\* The scene document store under the UI thread's calls, on a disk that other
\* programs write at any moment.
NextScene ==
  \/ \E text \in Texts : ExternalWrite(text)
  \/ ExternalDelete
  \/ \E c \in {"ok", "missing", "malformed"} : ExternalConfig(c)
  \/ Tick
  \/ OpenConfigError
  \/ OpenProbeFound
  \/ OpenProbeMissing
  \/ OpenRead
  \/ OpenReadError
  \/ OpenStat
  \/ OpenStatError
  \/ OpenBuild
  \/ SaveRefused
  \/ SaveWrite
  \/ SaveWriteError
  \/ SaveStat
  \/ ReloadTick
  \/ \E d \in SceneDocs : EditScene(d)

SpecScene == Init /\ [][NextScene]_vars

\* The selection of the hierarchy panel over scenes that are opened,
\* replaced on disk by another program and reloaded.
NextSelect ==
  \/ \E text \in Texts : ExternalWrite(text)
  \/ ExternalDelete
  \/ Tick
  \/ OpenProbeFound
  \/ OpenProbeMissing
  \/ OpenRead
  \/ OpenReadError
  \/ OpenStat
  \/ OpenStatError
  \/ OpenBuild
  \/ ReloadTick
  \/ \E i \in 0..(MaxEntities - 1) : SelectEntity(i)
  \/ DrawInspector

SpecSelect == Init /\ [][NextSelect]_vars

\* The runner: the run process, its output and the log, with the exporter's
\* output appended to the same log.
NextRun ==
  \/ OpenProjectOk("A")
  \/ StartRunRefused
  \/ StartRun
  \/ StartRunSpawnFail
  \/ ReaderSends
  \/ ChildExits
  \/ PumpRunLog
  \/ StopRun
  \/ OnExit
  \/ ExportMeta(LogExports)

SpecRun == Init /\ [][NextRun]_vars

\* The UI thread and what it may wait for: checks submitted and drained
\* while the worker runs them, a run process started and stopped, the
\* exporter run, each call that waits followed step by step.
NextTick ==
  \/ OpenProjectOk("A")
  \/ RunCargoCheck
  \/ WorkerSpawn
  \/ WorkerReadLine(TickLines)
  \/ WorkerFinish
  \/ UpdateDrain
  \/ StartRun
  \/ ChildExits
  \/ StopKill
  \/ KilledProcessEnds
  \/ StopReap
  \/ ExportSpawn
  \/ \E out \in TickExports : ExporterExits(out)
  \/ ExportCollect

SpecTick == Init /\ [][NextTick]_vars

\* The script schema: the loader called by open_project, by the refresh of
\* update and after an export, over a schema file that other programs write;
\* with opens that fail.
NextSchema ==
  \/ OpenProjectOk("A")
  \/ \E root \in Roots : OpenProjectErr(root)
  \/ \E text \in SchemaTexts : SchemaWrite(text)
  \/ SchemaDelete
  \/ Tick
  \/ SchemaProbe
  \/ SchemaLoadStep
  \/ ExportMeta(SchemaExports)

SpecSchema == Init /\ [][NextSchema]_vars

\* The text of the scene: a document is serialized as save_design does and
\* the text parsed as open and reload do.
NextRon ==
  \/ \E d \in RonDocs : RonEdit(d)
  \/ RonSave
  \/ RonLoad

SpecRon == Init /\ [][NextRon]_vars

\* One watch worker's thread and the event source that feeds it.
NextWatch ==
  \/ WatcherCreated
  \/ WatcherCreateFails
  \/ Register
  \/ WatchStartLoop
  \/ \E item \in SourceItems : Deliver(item)
  \/ ClockTick
  \/ WatchSkipError
  \/ WatchDropNoisy
  \/ WatchDropIgnored
  \/ WatchDebounced
  \/ WatchForward

SpecWatch == Init /\ [][NextWatch]_vars

\* The watch worker with its bridge: changes on disk, the events the worker
\* forwards and the check jobs the bridge sends for them.
NextAuto ==
  \/ WatcherCreated
  \/ Register
  \/ WatchStartLoop
  \/ \E item \in ChangeItems : DeliverChange(item)
  \/ ClockTick
  \/ WatchDropNoisy
  \/ WatchDebounced
  \/ WatchForward
  \/ WatchBridge

SpecAuto == Init /\ [][NextAuto]_vars

\* The worker thread is scheduled and every cargo process terminates.
FairCheck ==
  /\ SpecCheck
  /\ WF_vars(WorkerSpawn \/ WorkerSpawnFail)
  /\ WF_vars(WorkerFinish)

\* ------------------------------------------------------------ claims
Range(s) == {s[i] : i \in DOMAIN s}
IsPrefix(s, t) == Len(s) <= Len(t) /\ s = SubSeq(t, 1, Len(s))
Ids(s) == [i \in DOMAIN s |-> s[i].id]
Count(n) == [i \in 1..n |-> i]

\* C1: at most one verification process is in flight at any time, and the
\* worker is processing job k only when the k-1 jobs before it have had their
\* process reaped and their result sent, whoever submitted them and for
\* whichever root.
C1_OneCheckAtATime ==
  /\ Cardinality(procs) <= 1
  /\ wpc = "recv" => procs = {} /\ wjob = None
  /\ wpc = "reading" =>
        /\ wjob # None
        /\ procs = {wjob[1].id}
        /\ emitted = Count(wjob[1].id - 1)

\* C1 witness: a process is running while jobs for both roots wait behind it.
C1_Witness ==
  /\ procs # {}
  /\ \E i, j \in DOMAIN jobs : jobs[i].root # jobs[j].root

\* C2: results answer the jobs one to one and in order: the k-th result sent
\* answers the k-th job sent, the results received by update are a prefix
\* of those sent (the rest wait in the channel in order), the jobs not yet
\* taken wait in send order, and once the worker has nothing left every job
\* sent has exactly one result.
C2_ResultsInJobOrder ==
  /\ Ids(submitted) = Count(Len(submitted))
  /\ IsPrefix(emitted, Ids(submitted))
  /\ emitted = drained \o Ids(results)
  /\ Ids(submitted) = emitted \o Ids(wjob) \o Ids(jobs)
  /\ (jobs = << >> /\ wpc = "recv") => Len(emitted) = Len(submitted)

\* C2 witness: two results have been received in one drain while a third job
\* was sent; all jobs sent have been answered.
C2_Witness ==
  /\ Len(submitted) >= 3
  /\ Len(drained) >= 2
  /\ results # << >>
  /\ jobs = << >> /\ wpc = "recv"

\* C3: every job sent is eventually answered by a result on the result
\* channel, whatever project is open by then.
C3_EveryJobAnswered ==
  \A j \in 1..MaxJobs : (Len(submitted) >= j) ~> (j \in Range(emitted))

\* C3 witness: the first job, sent for root A, is being processed while the
\* open project is B.
C3_Witness ==
  /\ wjob # None /\ wjob[1].id = 1 /\ wjob[1].root = "A"
  /\ project # None /\ project[1].root = "B"

\* The scene file is on disk, its modification time can be read, and it is
\* strictly newer than the session's baseline or there is no baseline.
FileIsDue ==
  /\ project[1].design_path # None
  /\ file # None
  /\ (project[1].design_mtime = None \/ file[1].mtime > project[1].design_mtime[1])

\* The scene file holds the text of a scene document.
FileIsScene == file # None /\ file[1].text.kind = "scene"

\* C4: a reload reads the scene file again exactly when a path is known, the
\* modification time can be read and it is strictly newer than the baseline
\* (or there is none); it parses what it could read; when the parse succeeds
\* the document is the parsed one and the baseline the time observed, and
\* nothing else of the session changes; in every other case the session is
\* as it was.
C4_ReloadExactlyWhenNewer ==
  [][ReloadTick =>
       /\ last'.op = "reload"
       /\ last'.read = FileIsDue
       /\ last'.parsed = (FileIsDue /\ file[1].text.kind # "binary")
       /\ last'.ok = (FileIsDue /\ FileIsScene)
       /\ (FileIsDue /\ FileIsScene) =>
            project' = Some([project[1] EXCEPT
                               !.design_scene = Some([entities |-> file[1].text.entities]),
                               !.design_mtime = Some(file[1].mtime)])
       /\ ~(FileIsDue /\ FileIsScene) => project' = project]_vars

\* C4 witness: a reload has replaced a document loaded earlier by the newer
\* one on disk and stored the file's time as baseline.
C4_Witness ==
  /\ last.op = "reload" /\ last.ok /\ ~touched
  /\ project[1].design_mtime = Some(MaxTime)
  /\ project[1].design_scene = Some(SceneOne)
  /\ file = Some([text |-> RonText(SceneOne), mtime |-> MaxTime])

\* C5: when the file is newer than the baseline (or there is none) but cannot
\* be read or parsed, the reload leaves document, baseline and status line as
\* they were; and a reload that follows such a failed one with the disk
\* untouched reads the file again.
C5_FailedReloadKeepsState ==
  [][ReloadTick =>
       /\ (FileIsDue /\ ~FileIsScene) =>
            /\ last'.read /\ ~last'.ok
            /\ project' = project
            /\ last_log' = last_log
       /\ (last.op = "reload" /\ last.read /\ ~last.ok /\ ~touched) =>
            last'.read /\ ~last'.ok]_vars

\* C5 witness: a reload has retried a garbled newer file right after a failed
\* reload, the document loaded before still in memory.
C5_Witness ==
  /\ last.op = "reload" /\ last.parsed /\ ~last.ok
  /\ last.after = <<"reload", FALSE>>
  /\ project[1].design_scene # None /\ project[1].design_mtime # None
  /\ file # None /\ file[1].text = Garbled

\* C6 as stated: of two reloads in a row with the disk untouched between
\* them at most one parses, and the second changes nothing.
C6_AtMostOneParse ==
  [][(ReloadTick /\ last.op = "reload" /\ ~touched) =>
       /\ ~(last.parsed /\ last'.parsed)
       /\ project' = project]_vars

\* C6 amended: of two reloads in a row with the disk untouched between them
\* the second changes neither document nor baseline; it reads the file only
\* if the first read it and failed to read or parse it, so a malformed newer
\* file is parsed by each call and a file that parsed is parsed once.
C6_SecondReloadNoOp ==
  [][(ReloadTick /\ last.op = "reload" /\ ~touched) =>
       /\ project' = project
       /\ ~last'.ok
       /\ last'.read => (last.read /\ ~last.ok)
       /\ last'.parsed => (last.parsed /\ ~last.ok)]_vars

\* C6 witness: a second reload in a row after one that replaced the document:
\* it did not read the file.
C6_Witness ==
  /\ last.op = "reload" /\ last.after = <<"reload", TRUE>>
  /\ ~last.read /\ ~touched

\* C7: save stores the modification time of the file as it finds it after
\* its write, and the reload right after a successful save, the disk untouched
\* between them, does not read the file and changes nothing.
C7_NoReloadAfterSave ==
  [][/\ SaveStat => project'[1].design_mtime = Modified(file)
     /\ (ReloadTick /\ last.op = "save" /\ last.ok /\ ~touched) =>
          /\ ~last'.read /\ ~last'.parsed
          /\ project' = project]_vars

\* C7 witness: the reload right after a successful save of an edited
\* document, the file on disk being the one save wrote.
C7_Witness ==
  /\ last.op = "reload" /\ last.after = <<"save", TRUE>> /\ ~touched
  /\ file # None /\ Some(file[1].mtime) = project[1].design_mtime
  /\ file[1].mtime = MaxTime
  /\ Some([entities |-> file[1].text.entities]) = project[1].design_scene

\* A save_design call begins (its checks and its write).
SaveCall == SaveRefused \/ SaveWrite \/ SaveWriteError

\* C8: save fails when the session has no path or no scene, and then session
\* and file are as they were; a save that fails, for whatever reason, leaves
\* the session as it was; no step of a save changes the document in memory.
C8_FailedSaveChangesNothing ==
  [][/\ (SaveCall /\ (project[1].design_path = None \/ project[1].design_scene = None)) =>
          /\ last'.op = "save" /\ ~last'.ok /\ upc' = "idle"
          /\ project' = project
          /\ file' = file
     /\ (SaveCall /\ last'.op = "save" /\ ~last'.ok /\ upc' = "idle") =>
          project' = project
     /\ (SaveCall \/ SaveStat) =>
          /\ project' # None
          /\ project'[1].design_scene = project[1].design_scene]_vars

\* C8 witness: a save was refused for want of a path, the session being
\* what it was before the call.
C8_Witness ==
  /\ last.op = "save" /\ ~last.ok
  /\ last_log = <<"save failed:", "no design file">>
  /\ project # None /\ project[1].design_path = None

\* An open call begins (the config is read, the scene file is looked for).
OpenCall == OpenConfigError \/ OpenProbeFound \/ OpenProbeMissing

\* An open call fails: no session is stored, the one there was stays.
OpenFailed ==
  /\ upc' = "idle" /\ last'.op = "open" /\ ~last'.ok
  /\ project' = project

\* C9: open fails when project.ron is missing or malformed and when the
\* scene file it found cannot be read as a scene; a missing scene file is
\* not an error, and the session then has no scene, no path and no baseline;
\* the session's diagnostics are empty; when the file is there and parses the
\* session holds the parsed scene, the path and the modification time read.
\* (The scene file is missing, or there, at both looks open takes at it.)
C9_OpenOutcomes ==
  [][/\ (OpenCall /\ cfg # "ok") => OpenFailed
     /\ (OpenCall /\ cfg = "ok") => upc' # "idle"
     /\ (OpenCall /\ cfg = "ok" /\ file = None) =>
          upc' = "open_build" /\ loc' = [scene |-> None, mtime |-> None]
     /\ ((OpenRead \/ OpenReadError) /\ file # None /\ ~FileIsScene) => OpenFailed
     /\ ((OpenRead \/ OpenReadError) /\ FileIsScene) =>
          /\ upc' # "idle"
          /\ loc'.scene = Some([entities |-> file[1].text.entities])
     /\ ((OpenStat \/ OpenStatError) /\ file # None) =>
          /\ upc' # "idle"
          /\ loc' = [loc EXCEPT !.mtime = Some(file[1].mtime)]
     /\ OpenBuild =>
          /\ last'.op = "open" /\ last'.ok /\ upc' = "idle"
          /\ project' # None
          /\ project'[1].last_diagnostics = << >>
          /\ project'[1].design_scene = loc.scene
          /\ project'[1].design_mtime = loc.mtime
          /\ (loc.scene = None /\ file = None) =>
               /\ project'[1].design_path = None
               /\ project'[1].design_mtime = None
          /\ (loc.scene # None /\ file # None) =>
               project'[1].design_path # None]_vars

\* C9 witness: an open has loaded the scene on disk with its time as baseline.
C9_Witness ==
  /\ last.op = "open" /\ last.ok /\ ~touched
  /\ project[1].design_scene = Some(SceneTwo)
  /\ project[1].design_path # None
  /\ project[1].design_mtime = Some(1)
  /\ file = Some([text |-> RonText(SceneTwo), mtime |-> 1])

\* C10: once a project is open, a scene is in memory exactly when a scene
\* path is known.
C10_SceneIffPath ==
  project # None =>
    ((project[1].design_scene # None) <=> (project[1].design_path # None))

\* The last element of a non-empty sequence.
LastOf(s) == s[Len(s)]

\* C11: after a drain of check results the session's diagnostics are those
\* of the last result drained, the empty list when that result is Ok.
C11_DiagnosticsOfLastResult ==
  [][(UpdateDrain /\ project # None) =>
       /\ project' # None
       /\ project'[1].last_diagnostics = LastOf(results).diagnostics]_vars

\* The place of the last Err among results, 0 when there is none.
LastErr(rs) ==
  IF \E i \in DOMAIN rs : ~rs[i].ok
  THEN CHOOSE i \in DOMAIN rs : ~rs[i].ok /\ \A j \in DOMAIN rs : ~rs[j].ok => j <= i
  ELSE 0

\* C12: a drain that receives an Err result while a project is open leaves
\* as the session's diagnostics exactly the list of the last Err it received,
\* whatever the list was before and whatever else the drain received, and
\* changes nothing else of the session; the status line is that of the last
\* result received: its kind and its duration.
C12_LastErrOverwrites ==
  [][(UpdateDrain /\ project # None) =>
       /\ LastErr(results) # 0 =>
            project' = Some([project[1] EXCEPT
                               !.last_diagnostics = results[LastErr(results)].diagnostics])
       /\ last_log' = <<IF LastOf(results).ok THEN "cargo check: OK in"
                        ELSE "cargo check: ERR in",
                        LastOf(results).duration_ms, "ms">>
       /\ results' = << >>]_vars

\* C12 witness: the first drain of the session received two results or more,
\* an Err among them and an Ok last: the status line says OK and the
\* diagnostics are the Err's.
C12_Witness ==
  /\ burst >= 2 /\ Len(drained) = burst
  /\ project # None /\ project[1].last_diagnostics # << >>
  /\ last_log # << >> /\ last_log[1] = "cargo check: OK in"

\* C13: the result the worker sends for a process that ran to its end is Ok
\* exactly when no diagnostic was collected from its output and is otherwise
\* Err with all the diagnostics collected, in order, whatever code the
\* process exited with.
C13_OutcomeFromDiagnostics ==
  [][WorkerFinish =>
       /\ Len(results') = Len(results) + 1
       /\ SubSeq(results', 1, Len(results)) = results
       /\ LastOf(results').ok = (wdiags = << >>)
       /\ LastOf(results').diagnostics = wdiags
       /\ LastOf(results').id = wjob[1].id
       /\ wexit' \in {Some(code) : code \in ExitCodes}]_vars

\* C13 witness: a process that printed no diagnostic exited with a code other
\* than 0 and its result, the last one sent, is Ok.
C13_Witness ==
  /\ wexit = Some(101)
  /\ wpc = "recv"
  /\ results # << >> /\ LastOf(results).ok
  /\ LastOf(results).id = Len(emitted)

\* C14: when cargo cannot be spawned the worker sends one result for the job,
\* an Err with duration 0 and one diagnostic that carries the text of the
\* spawn error, and goes back to waiting for the next job: the jobs behind
\* the failed one are still in the channel and no process is left running.
C14_SpawnFailure ==
  [][WorkerSpawnFail =>
       /\ Len(results') = Len(results) + 1
       /\ SubSeq(results', 1, Len(results)) = results
       /\ LastOf(results').id = Head(jobs).id
       /\ ~LastOf(results').ok
       /\ LastOf(results').duration_ms = 0
       /\ Len(LastOf(results').diagnostics) = 1
       /\ LastOf(results').diagnostics[1].msg = <<"failed to spawn cargo: ", SpawnError>>
       /\ wpc' = "recv"
       /\ jobs' = Tail(jobs)
       /\ procs' = {}]_vars

\* C14 witness: the result of a failed spawn waits in the channel and the
\* result of the job sent after it waits behind it.
C14_Witness ==
  /\ Len(results) >= 2
  /\ ~results[1].ok /\ results[1].duration_ms = 0
  /\ results[1].diagnostics[1].msg[1] = "failed to spawn cargo: "
  /\ results[2].id = results[1].id + 1
  /\ results[2].ok

\* The text without the white space at its ends.
Trimmed(t) ==
  LET solid == {i \in DOMAIN t : t[i] # " "}
  IN IF solid = {} THEN << >>
     ELSE SubSeq(t, CHOOSE i \in solid : \A j \in solid : i <= j,
                    CHOOSE i \in solid : \A j \in solid : j <= i)

\* The diagnostics the claim expects of output lines: one for each compiler
\* message with a location, from its first location, level and trimmed text.
RECURSIVE Collected(_)
Collected(ls) ==
  IF ls = << >> THEN << >>
  ELSE (IF Head(ls).kind = "message" /\ Len(Head(ls).spans) >= 1
        THEN << [file |-> Head(ls).spans[1].file_name,
                 line |-> Head(ls).spans[1].line_start,
                 col  |-> Head(ls).spans[1].column_start,
                 msg  |-> <<"[", Head(ls).level, "] ">> \o Trimmed(Head(ls).text)] >>
        ELSE << >>)
       \o Collected(Tail(ls))

\* C15: the diagnostics the worker has collected are, in output order, one
\* for each line read so far that is a compiler message with at least one
\* location, made of its first location, its level and its trimmed text; any
\* other line adds nothing.
C15_DiagnosticsOfOutput ==
  /\ wdiags = Collected(wlines)
  /\ wpc = "recv" => wlines = << >>

\* C15 witness: after a line that is no message, a compiler message with two
\* locations and white space around its text gave one diagnostic.
C15_Witness ==
  /\ Len(wlines) = 2
  /\ wlines[1].kind = "junk"
  /\ Len(wlines[2].spans) = 2
  /\ wdiags = << [file |-> "src/main.rs", line |-> 10, col |-> 5,
                  msg |-> <<"[", "error", "] ", "mismatched types">>] >>

\* Every diagnostic the worker holds or has sent and the session stores.
AllDiagnostics ==
  Range(wdiags)
    \cup UNION {Range(results[i].diagnostics) : i \in DOMAIN results}
    \cup (IF project = None THEN {} ELSE Range(project[1].last_diagnostics))

\* C16: every diagnostic of the worker and of the session has a line and a
\* column of 1 or more.
C16_OneBasedPositions ==
  \A d \in AllDiagnostics : d.line >= 1 /\ d.col >= 1

UnderIgnoredPrefix(s) == s # << >> /\ s[1] \in {"target", ".git"}

\* The path lies under the source directory of the project.
IsSourcePath(s) == Len(s) >= 2 /\ s[1] = "src"

\* The debounce gate is open: nothing was forwarded in the last 250 ms.
GateOpen == khist.sent_at = None \/ clock - khist.sent_at[1] >= 250

\* The loop takes an item from inner_rx.
WatchTakes ==
  WatchSkipError \/ WatchDropNoisy \/ WatchDropIgnored \/ WatchDebounced \/ WatchForward

\* C18: the loop forwards the event it takes only if its kind is neither
\* Access nor Other and one of its paths lies outside the ignored prefixes;
\* and it forwards an event of such a kind that has a path under an ignored
\* prefix and a path under the source directory whenever the debounce gate
\* is open.
C18_FilterByKindAndPrefix ==
  [][WatchTakes =>
       LET e == Head(inner) IN
       /\ khist'.out > khist.out =>
            /\ e.ok
            /\ e.kind \notin {"Access", "Other"}
            /\ \E i \in DOMAIN e.paths : ~UnderIgnoredPrefix(e.paths[i])
       /\ ( /\ e.ok
            /\ e.kind \notin {"Access", "Other"}
            /\ \E i \in DOMAIN e.paths : UnderIgnoredPrefix(e.paths[i])
            /\ \E i \in DOMAIN e.paths : IsSourcePath(e.paths[i])
            /\ GateOpen ) => khist'.out = khist.out + 1]_vars

\* C19: a failed registration leaves the thread registering the next path
\* and the paths registered so far watched; an Err item of the event source
\* is taken from the channel and skipped, the thread staying in its loop with
\* nothing forwarded and the debounce state untouched; and after such a
\* failure an event that passes the filters while the gate is open is
\* forwarded.
C19_LoopSurvivesFailures ==
  [][/\ Register =>
          /\ kpc' = "register"
          /\ registered' = registered + 1
          /\ watched \subseteq watched'
     /\ WatchSkipError =>
          /\ kpc' = "loop"
          /\ inner' = Tail(inner)
          /\ last_fire' = last_fire
          /\ khist'.out = khist.out
     /\ ( /\ WatchTakes
          /\ khist.erred \/ Cardinality(watched) < Len(WatchRoots)
          /\ Head(inner).ok
          /\ ~Noisy(Head(inner).kind)
          /\ Interesting(Head(inner).paths)
          /\ GateOpen ) => khist'.out = khist.out + 1]_vars

\* C19 witness: with one path only registered, and after an Err item of the
\* event source was skipped, an event was forwarded.
C19_Witness ==
  /\ Cardinality(watched) = 1
  /\ handled # None /\ handled[1].sent
  /\ handled[1].before.erred
  /\ kpc = "loop"

\* Exactly one job, for `root`, is added to the job channel.
OneJobSent(root) ==
  /\ Len(submitted') = Len(submitted) + 1
  /\ SubSeq(submitted', 1, Len(submitted)) = submitted
  /\ LastOf(submitted').root = root
  /\ jobs' = Append(jobs, LastOf(submitted'))

\* C20: a successful open sends exactly one job for the new root and adds
\* exactly one watch worker with its bridge, for that root, leaving the older
\* ones running; an event a watch worker forwards waits in its bridge's
\* channel and sends no job by itself; the bridge takes the events one at a
\* time and sends exactly one job for its own root for each; and events leave
\* the channel in no other way.
C20_OneJobPerOpenAndEvent ==
  [][/\ \A root \in Roots : OpenProjectOk(root) =>
          /\ OneJobSent(root)
          /\ project' # None /\ project'[1].root = root
          /\ Len(bridges') = Len(bridges) + 1
          /\ SubSeq(bridges', 1, Len(bridges)) = bridges
          /\ LastOf(bridges') = [root |-> root, pending |-> 0]
     /\ \A i \in DOMAIN bridges :
          /\ WatcherForward(i) =>
               /\ bridges' = [bridges EXCEPT ![i].pending = bridges[i].pending + 1]
               /\ jobs' = jobs /\ submitted' = submitted
          /\ BridgeForward(i) =>
               /\ bridges' = [bridges EXCEPT ![i].pending = bridges[i].pending - 1]
               /\ OneJobSent(bridges[i].root)
          /\ bridges'[i].root = bridges[i].root
          /\ bridges'[i].pending < bridges[i].pending => BridgeForward(i)
     /\ Len(bridges') >= Len(bridges)]_vars

\* C20 witness: project A was opened, then project B; the third job is one
\* for root A, sent by A's bridge for an event of A's watch worker while B is
\* the open project.
C20_Witness ==
  /\ Len(bridges) = 2 /\ bridges[1].root = "A" /\ bridges[2].root = "B"
  /\ Len(submitted) >= 3
  /\ submitted[1].root = "A" /\ submitted[2].root = "B" /\ submitted[3].root = "A"
  /\ project # None /\ project[1].root = "B"

\* The watcher/bridge pairs whose threads are running.
LivePairs == {i \in DOMAIN wthreads : wthreads[i] # "dead"}

\* C21: an open leaves the watcher/bridge pairs of the projects opened before
\* as they are; a bridge turns an event of its watch worker into a job for
\* its own root, whatever project is open by then; and the number of live
\* watcher/bridge pairs is the number of successful opens.
C21_OldPairsSurviveOpen ==
  [][/\ \A root \in Roots : OpenProjectSpawn(root) =>
          /\ SubSeq(bridges', 1, Len(bridges)) = bridges
          /\ SubSeq(wthreads', 1, Len(wthreads)) = wthreads
     /\ \A i \in DOMAIN bridges : BridgeForward(i) => OneJobSent(bridges[i].root)
     /\ Cardinality(LivePairs') = Len(bridges')]_vars

\* C22: a drain applies an Err result to the open project whatever root its
\* job was sent for: the last Err result received, also one that answers a
\* job for another root than the open project's, becomes the session's
\* diagnostics list, and the session stays that of the open project.
C22_ResultsNotFiltered ==
  [][(UpdateDrain /\ project # None) =>
       \A i \in DOMAIN results :
         (~results[i].ok /\ \A j \in (i + 1)..Len(results) : results[j].ok) =>
           /\ project' # None
           /\ project'[1].root = project[1].root
           /\ project'[1].last_diagnostics = results[i].diagnostics]_vars

\* C22 witness: project B is open and holds diagnostics; one result only has
\* been drained, the answer to the first job, which was sent for root A.
C22_Witness ==
  /\ project # None /\ project[1].root = "B"
  /\ project[1].last_diagnostics # << >>
  /\ Len(drained) = 1
  /\ submitted[1].root = "A"

\* The last n elements of s, all of s when it has no more.
LastN(s, n) == IF Len(s) <= n THEN s ELSE SubSeq(s, Len(s) - n + 1, Len(s))

\* C23: after every handler of a tick the run log holds at most 5000 lines,
\* and they are the most recent of the lines pushed to it since it was last
\* cleared, in the order they were pushed: the oldest were evicted first.
C23_RunLogBounded ==
  /\ Len(run_log) <= 5000
  /\ run_log = LastN(pushed, 5000)

\* C23 witness: more than 5000 lines were pushed; the log is full, its first
\* line is a line of the run process that is not the first one printed, and
\* its last lines are those of the exporter.
C23_Witness ==
  /\ Len(pushed) > 5000
  /\ Len(run_log) = 5000
  /\ run_log[1].tag = "[out] " /\ run_log[1].n > 1
  /\ run_log[5000].tag = "[export/stderr] "
  /\ run_log[4999].tag = "[export/stdout] "

\* start_run is called.
StartRunCall == StartRunRefused \/ StartRun \/ StartRunSpawnFail

\* C24: every run process alive is the one tracked, so at most one at a time;
\* and a start_run called while a process is tracked, or while no project is
\* open, starts no process and changes nothing but the status line: the
\* tracked process, the channel with the lines waiting in it and the log are
\* as they were, and the call is not remembered in any way.
C24_StartRunRejected ==
  [][/\ running' \subseteq Range(run_child')
     /\ (StartRunCall /\ (run_child # None \/ project = None)) =>
          /\ run_child' = run_child
          /\ run_rx' = run_rx
          /\ run_log' = run_log
          /\ running' = running
          /\ started' = started
          /\ last_log' = IF project = None THEN <<"no project open">>
                         ELSE <<"runner already active">>
          /\ UNCHANGED <<project, checkVars, watchVars, sceneVars, appVars>>]_vars

\* C24 witness: a start_run was rejected while the one process started so far
\* was tracked and running, with lines in the log and lines in the channel.
C24_Witness ==
  /\ last_log = <<"runner already active">>
  /\ run_child = Some(1) /\ running = {1} /\ started = 1
  /\ run_log # << >>
  /\ run_rx # None /\ run_rx[1] # << >>

\* C25: once on_exit has run no run process is tracked, the channel is
\* dropped and no run process the application started is alive; on_exit kills
\* and reaps the process it finds tracked.
C25_NoRunProcessAfterExit ==
  [][/\ OnExit =>
          /\ exited'
          /\ run_child # None =>
               LastOf(stops') = [id |-> run_child[1], from |-> "exit",
                                 alive |-> run_child[1] \in running]
     /\ exited' => (run_child' = None /\ run_rx' = None /\ running' = {})]_vars

\* C25 witness: the application has exited; the second run process it
\* started was alive when on_exit ran and is gone, like the first.
C25_Witness ==
  /\ exited
  /\ started = 2
  /\ stops # << >>
  /\ LastOf(stops) = [id |-> 2, from |-> "exit", alive |-> TRUE]
  /\ running = {}

\* A step that leaves the status of a failed open.
FailedOpenStep ==
  last_log' = <<"Failed to open project">> /\ last_log' # last_log

\* C26: an open that fails changes the status line and nothing else: the
\* project that was open (document, diagnostics, baseline), the watcher
\* pairs, the schema and its baseline, the job and result channels and the
\* run state are as before; no job is sent and no pair is added.
C26_FailedOpenChangesStatusOnly ==
  [][FailedOpenStep =>
       /\ (\E root \in Roots : OpenProjectErr(root))
       /\ project' = project
       /\ jobs' = jobs /\ submitted' = submitted
       /\ bridges' = bridges /\ wthreads' = wthreads
       /\ script_schema' = script_schema /\ schema_mtime' = schema_mtime
       /\ UNCHANGED <<checkVars, watchVars, sceneVars, appVars>>]_vars

\* C26 witness: an open failed while project A was open with its schema
\* loaded, its first job still queued and its watcher pair running.
C26_Witness ==
  /\ last_log = <<"Failed to open project">>
  /\ project # None /\ project[1].root = "A"
  /\ script_schema # None /\ schema_mtime # None
  /\ Len(jobs) = 1 /\ Len(submitted) = 1
  /\ Len(bridges) = 1 /\ wthreads = <<"loop">>

\* The loader is called: by open_project, by the refresh of update, or by
\* an export that exited with 0.
LoaderCalled ==
  \/ \E root \in Roots : OpenProjectOk(root)
  \/ SchemaLoadStep
  \/ ExportMeta(SchemaExports) /\ sdid'.loaded

\* C29: whenever the loader is called and the schema file is absent,
\* unreadable or does not parse, the schema in memory is None afterwards,
\* the status line says so, the baseline is the one before, and the UI
\* thread is back in its loop with the project open.
C29_FailedLoadClearsSchema ==
  [][(LoaderCalled /\ SchemaFound(sfile') = None) =>
       /\ script_schema' = None
       /\ last_log' = IF ReadSchema(sfile') = None
                      THEN <<"No .schema.ron yet (run exporter)">>
                      ELSE <<"Failed to parse .schema.ron">>
       /\ schema_mtime' = schema_mtime
       /\ upc' = "idle"
       /\ project' # None]_vars

\* C29 witness: a load of a schema file that does not parse, newer than the
\* baseline an earlier load stored, has left no schema and the old baseline.
C29_Witness ==
  /\ sdid.loaded /\ ~sdid.ok
  /\ script_schema = None
  /\ last_log = <<"Failed to parse .schema.ron">>
  /\ schema_mtime # None
  /\ sfile # None /\ sfile[1].text = GarbledSchema
  /\ sfile[1].mtime > schema_mtime[1]

\* A refresh of update calls the loader on a file that reads but does not parse.
RefreshParseFails ==
  /\ SchemaLoadStep
  /\ ReadSchema(sfile) # None
  /\ SchemaFound(sfile) = None

\* The latest use of the loader was a refresh of update that found no
\* schema, and the file has the modification time that refresh saw.
FailedRefreshStands ==
  /\ upc = "idle"
  /\ sdid.op = "tick" /\ sdid.loaded /\ ~sdid.ok
  /\ sfile # None
  /\ sseen = Some(sfile[1].mtime)

\* C30 as stated: after a refresh of update that fails to parse the changed
\* file, the schema in memory is the one that was loaded before, and the
\* next tick, finding the file as the refresh saw it, refreshes again.
C30_SchemaKeptOnParseFailure ==
  [][RefreshParseFails =>
       /\ script_schema' = script_schema
       /\ (sseen' = Some(sfile'[1].mtime) =>
             SchemaChanged(schema_mtime', sfile'[1].mtime))]_vars

\* C30 amended: a refresh of update that fails to parse the changed file
\* leaves no schema in memory, the parse failure in the status line and the
\* baseline as it was; and while the file keeps the modification time that
\* refresh saw, the file counts as changed, so the next tick refreshes again.
C30_ParseFailureClearsAndRetries ==
  /\ [][RefreshParseFails =>
          /\ script_schema' = None
          /\ last_log' = <<"Failed to parse .schema.ron">>
          /\ schema_mtime' = schema_mtime]_vars
  /\ [](FailedRefreshStands => SchemaChanged(schema_mtime, sfile[1].mtime))

\* C30 witness: a schema was loaded, then a refresh failed to parse the
\* file, and the refresh of the next tick has read the same file again and
\* failed again.
C30_Witness ==
  /\ FailedRefreshStands
  /\ sdid.again
  /\ script_schema = None
  /\ schema_mtime # None
  /\ last_log = <<"Failed to parse .schema.ron">>

\* C27: a reload that finds the scene file newer than the baseline and
\* parseable while the document in memory holds edits that were not saved
\* leaves in memory exactly the document parsed from the file, entity for
\* entity, and the file's modification time as baseline.
C27_ReloadReplacesWholesale ==
  [][(/\ ReloadTick
      /\ edited # None
      /\ project[1].design_scene = edited
      /\ ReloadWanted(project[1], file)
      /\ Reparsed(file) # None) =>
       /\ project'[1].design_scene = ParseScene(file[1].text)
       /\ project'[1].design_mtime = Some(file[1].mtime)
       /\ file' = file]_vars

\* C27 witness: the inspector made the document SceneTwo, another program
\* wrote SceneOne to the file, and the reload has left SceneOne in memory.
C27_Witness ==
  /\ last.op = "reload" /\ last.ok
  /\ edited = Some(SceneTwo)
  /\ project # None
  /\ project[1].design_scene = Some(SceneOne)
  /\ file # None /\ file[1].text = RonText(SceneOne)

ExportLines(out) ==
  Lines("[export/stdout] ", exports + 1, 0, out.nout)
    \o Lines("[export/stderr] ", exports + 1, 0, out.nerr)

\* C31: the export handler appends the exporter's output lines to the run
\* log; after an exit with a status N other than 0 the status line is the
\* failure message with N and the schema loader has not been called; after
\* an exit with 0 the status line is the export's own success message and
\* the schema has been loaded from the file.
C31_ExportOutcomes ==
  [][\A out \in SchemaExports : ExportMeta({out}) =>
       /\ run_log' = Truncated(run_log \o ExportLines(out))
       /\ IF out.status # 0
          THEN /\ last_log' = <<"Export failed (exit ", out.status, "). See console.">>
               /\ ~sdid'.loaded
               /\ script_schema' = script_schema
               /\ schema_mtime' = schema_mtime
          ELSE /\ last_log' = <<"Exported script schema.">>
               /\ sdid'.loaded
               /\ script_schema' = SchemaFound(sfile')]_vars

\* The UI thread stands in a call that returns only when a process other
\* than the editor has ended: cmd.output() of the exporter, child.wait() of
\* the run process.
UIWaits ==
  \/ upc = "export" /\ xrun.st = "running"
  \/ upc = "stop" /\ run_child[1] \in running

\* C32 as stated: the UI tick never blocks, whatever user action it handles;
\* the UI thread is never in a call that waits for a worker or an external
\* process to make progress.
C32_TickNeverBlocks == ~UIWaits

\* C32, amended: the tick never waits on its channels or on the check
\* worker: a check is submitted and the results present are drained in one
\* step of the UI thread whatever jobs wait and whatever the worker is doing,
\* leaving the worker and its job queue as they are. The tick does wait in two
\* user actions, for an external process only: in the export until the
\* exporter it started has exited, in stop_run until the run process it has
\* killed is gone; once that process has ended the call returns.
C32_TickWaitsOnlyForExportAndStop ==
  /\ [](upc = "idle" /\ project # None /\ JobBudgetLeft => ENABLED RunCargoCheck)
  /\ [](upc = "idle" /\ results # << >> => ENABLED UpdateDrain)
  /\ [][RunCargoCheck \/ UpdateDrain =>
          upc' = "idle" /\ UNCHANGED <<wpc, wjob, procs, xrun, running>>]_vars
  /\ [][UpdateDrain => results' = << >> /\ jobs' = jobs]_vars
  /\ [](upc = "export" => xrun.st \in {"running", "done"})
  /\ [](upc = "stop" => run_child # None /\ run_child[1] \in killed)
  /\ [](upc = "export" /\ xrun.st = "done" => ENABLED ExportCollect)
  /\ [](upc = "stop" /\ run_child[1] \notin running => ENABLED StopReap)
  /\ [](upc \in {"idle", "export", "stop"})

\* The UI thread stands in the export while the check worker runs a job, a
\* job waits and a result is ready to be drained.
C32_Witness ==
  /\ upc = "export"
  /\ xrun.st = "running"
  /\ wpc = "reading"
  /\ jobs # << >>
  /\ results # << >>

\* C33: whenever a scene is loaded and an entity is selected, the selected
\* index is a valid index into the entity list of the scene in memory, and the
\* inspector's "selected index valid while drawing" expectation never fails.
C33_SelectedIndexValid ==
  /\ inspected # "panic"
  /\ (project # None /\ project[1].design_scene # None /\ selected_entity # None)
        => selected_entity[1] < Len(project[1].design_scene[1].entities)

\* C34: the baseline stored by save never masks a write made by another
\* program while save runs, after its write and before it reads the
\* modification time back: when save has returned and the file has not been
\* written since, a baseline equal to the file's modification time means
\* that the document in memory (nothing edited since) is what the file
\* parses to, so nothing is left for a later reload to detect.
C34_SaveBaselineNeverMasks ==
  ( /\ upc = "idle"
    /\ project # None
    /\ last.op = "save"
    /\ last.ok
    /\ ~touched
    /\ edited = None
    /\ file # None
    /\ project[1].design_mtime = Some(file[1].mtime) )
  => Reparsed(file) = project[1].design_scene

Quiescent ==
  /\ kpc = "loop"
  /\ inner = << >>
  /\ auto.bridged = khist.out

\* C35: every change that passes the filters is followed by a check job
\* submitted at or after the change, also when its own event is dropped by
\* the debounce gate: once changes have stopped and been dealt with, the last
\* check job was submitted no earlier than the last such change.
C35_CheckNotOlderThanChange ==
  (Quiescent /\ auto.changed_at # None) =>
    /\ auto.job_at # None
    /\ auto.job_at[1] >= auto.changed_at[1]

\* The session in memory was opened while the scene file was missing: open
\* took the (None, None) branch, and no later operation is under way.
OpenedWithoutScene ==
  /\ upc = "idle"
  /\ project # None
  /\ project[1].design_scene = None

\* C37: a session opened while the scene file is missing never acquires a
\* scene: its scene path is absent like its document, every reload leaves
\* the session as it is, no step of the session gives it a document or a
\* path, and every save fails without writing.
C37_NoSceneAfterMissingOpen ==
  /\ [](OpenedWithoutScene => project[1].design_path = None)
  /\ [][OpenedWithoutScene /\ ReloadTick => project' = project]_vars
  /\ [][OpenedWithoutScene => project' = project /\ upc' # "save_stat"]_vars
  /\ [][OpenedWithoutScene /\ (SaveRefused \/ SaveWrite \/ SaveWriteError)
          => last_log' = <<"save failed:", "no design file">> /\ file' = file]_vars

\* C38: the tracked run process is released only by stop_run (the Stop
\* button or on_exit). When the process exits by itself it stays tracked with
\* its channel, and a start_run called then is rejected with "runner already
\* active" and starts nothing. stop_run releases process and channel, after
\* which start_run is accepted: it tracks a new process with a new, empty
\* channel. Only the channel of the tracked process is drained: every line
\* waiting in the channel held comes from the tracked process.
C38_ReleasedOnlyByStop ==
  /\ [][(run_child # None /\ run_child' # run_child) => (StopRun \/ OnExit)]_vars
  /\ [][ChildExits => (run_child' = run_child /\ run_child' # None /\ run_rx' = run_rx)]_vars
  /\ [][(StartRunCall /\ project # None /\ run_child # None /\ run_child[1] \notin running)
          => /\ last_log' = <<"runner already active">>
             /\ UNCHANGED <<run_child, run_rx, running, started>>]_vars
  /\ [][(StopRun \/ OnExit) => (run_child' = None /\ run_rx' = None)]_vars
  /\ [][(StartRunCall /\ project # None /\ run_child = None)
          => \/ run_child' = Some(started') /\ run_rx' = Some(<< >>) /\ started' = started + 1
             \/ last_log' = <<"failed to start runner: ", SpawnError>>]_vars
  /\ [](run_rx # None =>
          /\ run_child # None
          /\ \A i \in DOMAIN run_rx[1] : run_rx[1][i].proc = run_child[1])

\* C38 witness: a start_run has been rejected while the tracked process, the
\* second one started, had exited by itself; the first one was stopped with
\* the Stop button after it had exited by itself.
C38_Witness ==
  /\ last_log = <<"runner already active">>
  /\ run_child = Some(2)
  /\ running = {}
  /\ stops = <<[id |-> 1, from |-> "button", alive |-> FALSE]>>
====
